---- MODULE Spec2Model ----
(***************************************************************************)
(* A model of hyprwhspr's global shortcut handler                          *)
(* (src/lib/hyprwhspr/global_shortcuts.py, class GlobalShortcuts): the     *)
(* key-combination parser, the shortcut registry, device discovery and     *)
(* grabbing, the event loop and the matching engine.                       *)
(*                                                                         *)
(* Conventions.  A Python str is a sequence of one-character strings, so   *)
(* that lower(), strip(), replace() and split() are computed character by  *)
(* character.  Time is counted in whole milliseconds.  A dict is a         *)
(* function whose DOMAIN is the set of keys present.                       *)
(***************************************************************************)
EXTENDS Integers, Sequences, FiniteSets, TLC

VARIABLES
    selected_device_path,  \* constructor argument device_path (NoPath for None)
    grab_keys,             \* constructor argument grab_keys
    devices,               \* self.devices: list of monitored devices
    device_fds,            \* self.device_fds: fd -> device
    listener_thread,       \* "None", "alive" or "exited"
    is_running,            \* self.is_running
    stop_event,            \* self.stop_event.is_set()
    uinput,                \* self.uinput: "None" or "open"
    devices_grabbed,       \* self.devices_grabbed
    pressed_keys,          \* self.pressed_keys
    suppressed_keys,       \* self.suppressed_keys
    active_shortcuts,      \* self.active_shortcuts: set of shortcut ids
    last_trigger_times,    \* self.last_trigger_times: id -> ms
    last_release_times,    \* self.last_release_times: id -> ms
    shortcuts,             \* self.shortcuts: list of Shortcut
    all_required_keys,     \* self.all_required_keys
    now,                   \* time.time(), in ms
    osState,               \* per input device: "ok", "busy" (EVIOCGRAB fails) or "gone"
    osGrabbed,             \* devices this process holds an exclusive grab on
    osOpen,                \* devices this process holds an open descriptor of
    osVirtual,             \* number of virtual (uinput) devices this process has open
    ret,                   \* the last API call and what it returned
    last_callback,         \* per shortcut id: the callback last started, "press" or "release"
    loop_pc,               \* where the newest worker is in _event_loop
    ready_fds,             \* _event_loop: the devices of ready_fds still to be read
    orphans,               \* workers still alive that a later start() replaced
    held_down,             \* per key: "up", or how its latest key-down, not yet released, was marked
    reported,              \* per input device: the key events it has reported, in order
    read_count,            \* per input device: how many of them read() has returned
    batch,                 \* _event_loop: events read by a worker and not yet processed
    engine_log,            \* the events passed to _process_event, in order
    written                \* the key events written to the virtual device, in order

vars == <<selected_device_path, grab_keys, devices, device_fds, listener_thread,
          is_running, stop_event, uinput, devices_grabbed, pressed_keys,
          suppressed_keys, active_shortcuts, last_trigger_times,
          last_release_times, shortcuts, all_required_keys, now, osState,
          osGrabbed, osOpen, osVirtual, ret, last_callback, loop_pc,
          ready_fds, orphans, held_down, reported, read_count, batch,
          engine_log, written>>

\* The record of the order of events.
orderVars == <<reported, read_count, batch, engine_log, written>>

(***************************************************************************)
(* Bounds of the model.                                                    *)
(***************************************************************************)
\* Shortcuts registered in one run of the engine specification.
MaxShortcuts == 1
\* Shortcuts registered in one run of the parser specification.
MaxParseShortcuts == 1
\* Shortcuts registered in one run of the lifecycle specification.
MaxLifeShortcuts == 1
\* Shortcuts registered in one run of the worker-loop specification.
MaxLoopShortcuts == 1
\* Workers that outlive a stop() in one run of the worker-loop specification.
MaxOrphans == 1
\* Shortcuts registered in one run of the key-stream specification.
MaxKeyShortcuts == 2
\* Clock ticks (of TickMs each) in one run of the key-stream specification.
MaxKeyTicks == 1
\* Clock ticks (of TickMs each) in one run.
MaxTicks == 3
\* The clock's first reading: time.time() is far beyond the debounce time.
StartMs == 1000

\* The clock advances in steps of TickMs: gaps of 0, 50, 100 and 150 ms occur.
TickMs == 50

(***************************************************************************)
(* Key vocabulary.                                                         *)
(***************************************************************************)
\* Key codes of evdev's ecodes (linux/input-event-codes.h).
KEY_LEFTCTRL == 29
KEY_A == 30
KEY_D == 32
KEY_LEFTSHIFT == 42
KEY_RIGHTSHIFT == 54
KEY_LEFTALT == 56
KEY_F12 == 88
KEY_RIGHTCTRL == 97
KEY_RIGHTALT == 100
KEY_LEFTMETA == 125
KEY_RIGHTMETA == 126

\* Python's None where a key code is expected.
None == -1

\* KEY_ALIASES: the entries for the keys of this model.
KEY_ALIASES ==
    (<<"c","t","r","l">> :> <<"K","E","Y","_","L","E","F","T","C","T","R","L">>) @@ (<<"c","o","n","t","r","o","l">> :> <<"K","E","Y","_","L","E","F","T","C","T","R","L">>) @@
    (<<"l","c","t","r","l">> :> <<"K","E","Y","_","L","E","F","T","C","T","R","L">>) @@
    (<<"a","l","t">> :> <<"K","E","Y","_","L","E","F","T","A","L","T">>) @@ (<<"l","a","l","t">> :> <<"K","E","Y","_","L","E","F","T","A","L","T">>) @@
    (<<"s","h","i","f","t">> :> <<"K","E","Y","_","L","E","F","T","S","H","I","F","T">>) @@ (<<"l","s","h","i","f","t">> :> <<"K","E","Y","_","L","E","F","T","S","H","I","F","T">>) @@
    (<<"s","u","p","e","r">> :> <<"K","E","Y","_","L","E","F","T","M","E","T","A">>) @@ (<<"m","e","t","a">> :> <<"K","E","Y","_","L","E","F","T","M","E","T","A">>) @@
    (<<"w","i","n">> :> <<"K","E","Y","_","L","E","F","T","M","E","T","A">>) @@
    (<<"r","c","t","r","l">> :> <<"K","E","Y","_","R","I","G","H","T","C","T","R","L">>) @@ (<<"r","i","g","h","t","c","t","r","l">> :> <<"K","E","Y","_","R","I","G","H","T","C","T","R","L">>) @@
    (<<"r","a","l","t">> :> <<"K","E","Y","_","R","I","G","H","T","A","L","T">>) @@
    (<<"r","s","h","i","f","t">> :> <<"K","E","Y","_","R","I","G","H","T","S","H","I","F","T">>) @@
    (<<"r","m","e","t","a">> :> <<"K","E","Y","_","R","I","G","H","T","M","E","T","A">>) @@
    (<<"f","1","2">> :> <<"K","E","Y","_","F","1","2">>) @@
    (<<"a">> :> <<"K","E","Y","_","A">>) @@ (<<"d">> :> <<"K","E","Y","_","D">>)

\* ecodes.ecodes: key name -> key code, for the keys of this model.
Ecodes ==
    (<<"K","E","Y","_","L","E","F","T","C","T","R","L">> :> KEY_LEFTCTRL) @@ (<<"K","E","Y","_","R","I","G","H","T","C","T","R","L">> :> KEY_RIGHTCTRL) @@
    (<<"K","E","Y","_","L","E","F","T","A","L","T">> :> KEY_LEFTALT) @@ (<<"K","E","Y","_","R","I","G","H","T","A","L","T">> :> KEY_RIGHTALT) @@
    (<<"K","E","Y","_","L","E","F","T","S","H","I","F","T">> :> KEY_LEFTSHIFT) @@ (<<"K","E","Y","_","R","I","G","H","T","S","H","I","F","T">> :> KEY_RIGHTSHIFT) @@
    (<<"K","E","Y","_","L","E","F","T","M","E","T","A">> :> KEY_LEFTMETA) @@ (<<"K","E","Y","_","R","I","G","H","T","M","E","T","A">> :> KEY_RIGHTMETA) @@
    (<<"K","E","Y","_","F","1","2">> :> KEY_F12) @@ (<<"K","E","Y","_","A">> :> KEY_A) @@ (<<"K","E","Y","_","D">> :> KEY_D)

\* GlobalShortcuts.MODIFIER_KEYS
MODIFIER_KEYS ==
    {KEY_LEFTCTRL, KEY_RIGHTCTRL, KEY_LEFTALT, KEY_RIGHTALT,
     KEY_LEFTSHIFT, KEY_RIGHTSHIFT, KEY_LEFTMETA, KEY_RIGHTMETA}

(***************************************************************************)
(* str methods, character by character.                                    *)
(***************************************************************************)
UpperLetters == <<"A","B","C","D","E","F","G","H","I","J","K","L","M","N","O","P","Q","R","S","T","U","V","W","X","Y","Z">>
LowerLetters == <<"a","b","c","d","e","f","g","h","i","j","k","l","m","n","o","p","q","r","s","t","u","v","w","x","y","z">>
Whitespace == {" ", "\t"}

\* str.lower() of one character
LowerChar(c) ==
    IF \E i \in 1..Len(UpperLetters) : UpperLetters[i] = c
    THEN LowerLetters[CHOOSE i \in 1..Len(UpperLetters) : UpperLetters[i] = c]
    ELSE c

\* str.upper() of one character
UpperChar(c) ==
    IF \E i \in 1..Len(LowerLetters) : LowerLetters[i] = c
    THEN UpperLetters[CHOOSE i \in 1..Len(LowerLetters) : LowerLetters[i] = c]
    ELSE c

\* str.lower()
Lower(s) == [i \in 1..Len(s) |-> LowerChar(s[i])]

\* str.upper()
Upper(s) == [i \in 1..Len(s) |-> UpperChar(s[i])]

\* str.strip()
Strip(s) ==
    LET keep == {i \in 1..Len(s) : s[i] \notin Whitespace}
    IN  IF keep = {} THEN <<>>
        ELSE LET first == CHOOSE i \in keep : \A j \in keep : i <= j
                 last  == CHOOSE i \in keep : \A j \in keep : j <= i
             IN  SubSeq(s, first, last)

\* str.replace(c, '')
RemoveChar(s, c) == SelectSeq(s, LAMBDA x : x # c)

\* str.startswith(p)
StartsWith(s, p) == Len(s) >= Len(p) /\ SubSeq(s, 1, Len(p)) = p

\* str.split(sep) for a one-character sep
RECURSIVE SplitFrom(_, _, _)
SplitFrom(s, sep, cur) ==
    IF s = <<>> THEN <<cur>>
    ELSE IF Head(s) = sep THEN <<cur>> \o SplitFrom(Tail(s), sep, <<>>)
    ELSE SplitFrom(Tail(s), sep, Append(cur, Head(s)))

Split(s, sep) == SplitFrom(s, sep, <<>>)

(***************************************************************************)
(* Parsing a key combination.                                              *)
(***************************************************************************)
\* GlobalShortcuts._string_to_keycode
StringToKeycode(key_string) ==
    LET ks == Strip(Lower(key_string))
        key_name == IF ks \in DOMAIN KEY_ALIASES THEN KEY_ALIASES[ks]
                    ELSE LET up == Upper(ks)
                         IN  IF StartsWith(up, <<"K","E","Y","_">>) THEN up ELSE <<"K","E","Y","_">> \o up
    IN  IF key_name \in DOMAIN Ecodes THEN Ecodes[key_name] ELSE None

\* What _parse_key_combination returns when a part does not resolve (None).
NoKeys == [ok |-> FALSE, keys |-> {}]

\* The loop of _parse_key_combination over the parts, keys collected so far.
RECURSIVE ParseParts(_, _)
ParseParts(parts, keys) ==
    IF parts = <<>> THEN [ok |-> TRUE, keys |-> keys]
    ELSE LET keycode == StringToKeycode(Strip(Head(parts)))
         IN  IF keycode # None
             THEN ParseParts(Tail(parts), keys \cup {keycode})
             ELSE NoKeys

\* A faulty variant of ParseKeyCombination: a part that does not resolve is skipped.
RECURSIVE ParsePartsSkipping(_, _)
ParsePartsSkipping(parts, keys) ==
    IF parts = <<>> THEN [ok |-> keys # {}, keys |-> keys]
    ELSE LET keycode == StringToKeycode(Strip(Head(parts)))
         IN  ParsePartsSkipping(Tail(parts),
                                IF keycode # None THEN keys \cup {keycode} ELSE keys)

ParseKeyCombinationSkipping(key_string) ==
    ParsePartsSkipping(
        Split(RemoveChar(RemoveChar(Strip(Lower(key_string)), "<"), ">"), "+"), {})

\* A faulty variant of ParseKeyCombination: angle brackets are not removed.
ParseKeyCombinationKeepingBrackets(key_string) ==
    ParseParts(Split(Strip(Lower(key_string)), "+"), {})

\* GlobalShortcuts._parse_key_combination
ParseKeyCombination(key_string) ==
    LET key_lower == RemoveChar(RemoveChar(Strip(Lower(key_string)), "<"), ">")
        parts == Split(key_lower, "+")
    IN  ParseParts(parts, {})

(***************************************************************************)
(* The input devices of the machine.                                       *)
(***************************************************************************)
\* The keys events are drawn from in the engine specification.
EventKeys == {KEY_LEFTCTRL, KEY_LEFTALT, KEY_LEFTSHIFT, KEY_D, KEY_F12}

\* /dev/input: a keyboard, a macro pad with two keys, and a device that
\* reports no EV_KEY capability.  list_devices() yields them in this order.
SysDevices ==
    (1 :> [path |-> "/dev/input/event0", ev_key |-> TRUE,
           keys |-> EventKeys \cup {KEY_A}]) @@
    (2 :> [path |-> "/dev/input/event1", ev_key |-> TRUE,
           keys |-> {KEY_F12, KEY_A}]) @@
    (3 :> [path |-> "/dev/input/event2", ev_key |-> FALSE, keys |-> {}])

DeviceIds == DOMAIN SysDevices

\* device.fd of the InputDevice opened on device d
Fd(d) == 10 + d

\* selected_device_path = None
NoPath == "None"

Range(seq) == {seq[i] : i \in 1..Len(seq)}

(***************************************************************************)
(* Shortcut registry.                                                      *)
(***************************************************************************)
\* The id returned when add_shortcut returns None.
NoId == [s |-> <<>>, n |-> 0 - 1]

ShortcutSet == Range(shortcuts)

\* GlobalShortcuts.add_shortcut, called while the engine is not running
\* (shortcuts are registered before start()).
AddShortcut(key_string, release_callback) ==
    LET target_keys == ParseKeyCombination(key_string)
        shortcut_id == [s |-> key_string, n |-> Len(shortcuts)]
    IN  /\ ~is_running
        /\ IF ~target_keys.ok \/ target_keys.keys = {}
           THEN /\ ret' = [op |-> "add_shortcut", arg |-> key_string,
                           ok |-> FALSE, id |-> NoId]
                /\ UNCHANGED <<shortcuts, all_required_keys>>
           ELSE /\ shortcuts' = Append(shortcuts,
                        [id |-> shortcut_id, target_keys |-> target_keys.keys,
                         callback |-> TRUE, release_callback |-> release_callback])
                /\ all_required_keys' = all_required_keys \cup target_keys.keys
                /\ ret' = [op |-> "add_shortcut", arg |-> key_string,
                           ok |-> TRUE, id |-> shortcut_id]
        /\ UNCHANGED <<selected_device_path, grab_keys, devices, device_fds,
                       listener_thread, is_running, stop_event, uinput,
                       devices_grabbed, pressed_keys, suppressed_keys,
                       active_shortcuts, last_trigger_times, last_release_times,
                       now, osState, osGrabbed, osOpen, osVirtual>>
        /\ UNCHANGED <<last_callback, loop_pc, ready_fds, orphans, held_down,
            orderVars>>

(***************************************************************************)
(* Device discovery.                                                       *)
(***************************************************************************)
\* evdev.list_devices(): the devices present, in path order
ListDevices == SelectSeq([i \in 1..Cardinality(DeviceIds) |-> i],
                         LAMBDA d : osState[d] # "gone")

\* device.grab() followed by device.ungrab() succeeds
ProbeOk(d) == osState[d] = "ok"

\* The device can emit all keys of at least one shortcut.
CanEmitAnyShortcut(d) ==
    \E sc \in ShortcutSet : sc.target_keys \subseteq SysDevices[d].keys

\* A faulty variant of DiscoverKeyboards: the grab/ungrab probe is not made.
DiscoverKeyboardsNoProbe ==
    IF shortcuts = <<>> THEN <<>>
    ELSE IF selected_device_path # NoPath
    THEN SelectSeq(ListDevices,
                   LAMBDA d : /\ SysDevices[d].path = selected_device_path
                              /\ SysDevices[d].ev_key)
    ELSE SelectSeq(ListDevices,
                   LAMBDA d : /\ SysDevices[d].ev_key
                              /\ CanEmitAnyShortcut(d))

\* A faulty variant of DiscoverKeyboards: in automatic discovery a failing
\* probe ends discovery with no device.
DiscoverKeyboardsAbortOnProbe ==
    IF shortcuts = <<>> THEN <<>>
    ELSE IF selected_device_path # NoPath
    THEN SelectSeq(ListDevices,
                   LAMBDA d : /\ SysDevices[d].path = selected_device_path
                              /\ SysDevices[d].ev_key
                              /\ ProbeOk(d))
    ELSE IF \E d \in Range(ListDevices) :
                SysDevices[d].ev_key /\ CanEmitAnyShortcut(d) /\ ~ProbeOk(d)
    THEN <<>>
    ELSE SelectSeq(ListDevices,
                   LAMBDA d : SysDevices[d].ev_key /\ CanEmitAnyShortcut(d))

\* A faulty variant of DiscoverKeyboards: the explicitly selected device must
\* be able to emit a shortcut, too.
DiscoverKeyboardsFilterSelected ==
    IF shortcuts = <<>> THEN <<>>
    ELSE SelectSeq(ListDevices,
                   LAMBDA d : /\ selected_device_path # NoPath =>
                                     SysDevices[d].path = selected_device_path
                              /\ SysDevices[d].ev_key
                              /\ CanEmitAnyShortcut(d)
                              /\ ProbeOk(d))

\* GlobalShortcuts._discover_keyboards: the devices it leaves in self.devices.
\* Every other device it opened is closed again.
DiscoverKeyboards ==
    IF shortcuts = <<>> THEN <<>>
    ELSE IF selected_device_path # NoPath
    THEN SelectSeq(ListDevices,
                   LAMBDA d : /\ SysDevices[d].path = selected_device_path
                              /\ SysDevices[d].ev_key
                              /\ ProbeOk(d))
    ELSE SelectSeq(ListDevices,
                   LAMBDA d : /\ SysDevices[d].ev_key
                              /\ CanEmitAnyShortcut(d)
                              /\ ProbeOk(d))

(***************************************************************************)
(* Lifecycle.                                                              *)
(***************************************************************************)
\* A faulty variant of VirtualAfterSetup: one virtual keyboard per grabbed device.
VirtualPerDevice(grabbed) == osVirtual + Cardinality(grabbed)

\* _setup_key_grabbing: the virtual keyboards open after UInput() is created
\* once, before the devices are grabbed
VirtualAfterSetup(grabbed) == osVirtual + 1

\* start(), lines 521-535, in the record of the order of events: what a
\* device reported and was not read from the old descriptors is not delivered
\* to the new ones; a worker still alive keeps the events it has read.
StartOrder(found) ==
    /\ read_count' = [d \in DeviceIds |-> Len(reported[d])]
    /\ batch' = IF found = <<>> THEN batch
                ELSE [worker |-> <<>>,
                      orphans |-> IF listener_thread = "alive" /\ batch.worker # <<>>
                                  THEN Append(batch.orphans, batch.worker)
                                  ELSE batch.orphans]
    /\ UNCHANGED <<reported, engine_log, written>>

\* GlobalShortcuts.start.  uinput_ok: creating the UInput device succeeds;
\* seized: the discovered devices another process grabs between the probe and
\* _setup_key_grabbing, whose grab() therefore fails.  Thread creation is
\* taken to succeed, so the except branch of start() is not entered.
Start(uinput_ok, seized) ==
    IF is_running
    THEN /\ seized = {} /\ uinput_ok
         /\ ret' = [op |-> "start", arg |-> <<>>, ok |-> TRUE, id |-> NoId]
         /\ UNCHANGED <<selected_device_path, grab_keys, devices, device_fds,
                        listener_thread, is_running, stop_event, uinput,
                        devices_grabbed, pressed_keys, suppressed_keys,
                        active_shortcuts, last_trigger_times,
                        last_release_times, shortcuts, all_required_keys, now,
                        osState, osGrabbed, osOpen, osVirtual, last_callback,
                        loop_pc, ready_fds, orphans, held_down, orderVars>>
    ELSE LET found == DiscoverKeyboards
             grabbing == grab_keys /\ uinput_ok
         IN  /\ seized \subseteq Range(found)
             /\ (found = <<>> \/ ~grab_keys) => uinput_ok
             /\ ~grabbing => seized = {}
             /\ devices' = found
             /\ device_fds' = [fd \in {Fd(d) : d \in Range(found)} |->
                                 CHOOSE d \in Range(found) : Fd(d) = fd]
             /\ osOpen' = osOpen \cup Range(found)
             /\ IF found = <<>>
                THEN /\ ret' = [op |-> "start", arg |-> <<>>, ok |-> FALSE,
                                id |-> NoId]
                     /\ UNCHANGED <<listener_thread, is_running, stop_event,
                                    uinput, devices_grabbed, osState, osGrabbed,
                                    osVirtual, loop_pc, ready_fds, orphans>>
                ELSE /\ IF grabbing
                        THEN /\ uinput' = "open"
                             /\ osVirtual' = VirtualAfterSetup(Range(found) \ seized)
                             /\ osState' = [d \in DeviceIds |->
                                   IF d \in seized THEN "busy" ELSE osState[d]]
                             /\ osGrabbed' = osGrabbed \cup (Range(found) \ seized)
                             /\ devices_grabbed' = TRUE
                        ELSE UNCHANGED <<uinput, osVirtual, osState, osGrabbed,
                                         devices_grabbed>>
                     /\ stop_event' = FALSE
                     /\ listener_thread' = "alive"
                     /\ loop_pc' = "test"
                     /\ ready_fds' = <<>>
                     \* a worker that outlived the last stop() is left running
                     /\ orphans' = IF listener_thread = "alive"
                                   THEN orphans + 1 ELSE orphans
                     /\ is_running' = TRUE
                     /\ ret' = [op |-> "start", arg |-> <<>>, ok |-> TRUE,
                                id |-> NoId]
             /\ UNCHANGED <<selected_device_path, grab_keys, pressed_keys,
                            suppressed_keys, active_shortcuts,
                            last_trigger_times, last_release_times, shortcuts,
                            all_required_keys, now>>
             /\ UNCHANGED <<last_callback, held_down>>
             /\ StartOrder(found)

\* A faulty variant of DevicesAfterRemove: every device is dropped.
DevicesAfterRemoveAll(d) == <<>>

\* GlobalShortcuts._remove_device: self.devices after removing device d
DevicesAfterRemove(d) == SelectSeq(devices, LAMBDA x : x # d)

\* GlobalShortcuts._remove_device: self.device_fds after removing device d
DeviceFdsAfterRemove(d) ==
    [fd \in DOMAIN device_fds \ {Fd(d)} |-> device_fds[fd]]

\* A faulty variant of RemovedByStop: stop() removes and closes no device.
RemovedByStopNone == {}

\* The devices stop() hands to _remove_device: a copy of self.devices.
RemovedByStop == Range(devices)

\* GlobalShortcuts.stop after the join: _cleanup_key_grabbing, _remove_device
\* (close()) of every device, and the resets of lines 604-606.
StopCleanup ==
    /\ osGrabbed' = (IF devices_grabbed THEN osGrabbed \ Range(devices)
                      ELSE osGrabbed) \ RemovedByStop
    /\ devices_grabbed' = FALSE
    /\ uinput' = "None"
    /\ osVirtual' = IF uinput # "None" THEN osVirtual - 1 ELSE osVirtual
    /\ devices' = SelectSeq(devices, LAMBDA x : x \notin RemovedByStop)
    /\ device_fds' = [fd \in DOMAIN device_fds \ {Fd(d) : d \in RemovedByStop}
                         |-> device_fds[fd]]
    /\ osOpen' = osOpen \ RemovedByStop
    /\ is_running' = FALSE
    /\ pressed_keys' = {}
    /\ suppressed_keys' = {}

\* GlobalShortcuts.stop, with _cleanup_key_grabbing and _remove_device, as
\* one step: the worker tests stop_event and exits before the 1 s join times
\* out.
Stop ==
    /\ ret' = [op |-> "stop", arg |-> <<>>, ok |-> TRUE, id |-> NoId]
    /\ IF ~is_running
       THEN UNCHANGED <<stop_event, listener_thread, osGrabbed, devices_grabbed,
                        uinput, osVirtual, devices, device_fds, osOpen,
                        is_running, pressed_keys, suppressed_keys, loop_pc,
                        ready_fds>>
       ELSE /\ stop_event' = TRUE
            /\ listener_thread' = "exited"
            /\ loop_pc' = "exited"
            /\ ready_fds' = <<>>
            /\ StopCleanup
    /\ UNCHANGED <<selected_device_path, grab_keys, active_shortcuts,
                   last_trigger_times, last_release_times, shortcuts,
                   all_required_keys, now, osState>>
    /\ UNCHANGED <<last_callback, orphans, held_down, orderVars>>

(***************************************************************************)
(* Matching engine.                                                        *)
(***************************************************************************)
\* self.debounce_time, in ms
debounce_time == 100

\* dict.get(id, 0)
GetTime(times, id) == IF id \in DOMAIN times THEN times[id] ELSE 0

\* times[id] = t for every id of ids
SetTimes(times, ids, t) ==
    [id \in DOMAIN times \cup ids |-> IF id \in ids THEN t ELSE times[id]]

\* A faulty variant of IsMatch: extra modifiers are not looked at.
IsMatchIgnoringExtras(sc, pk) == sc.target_keys \subseteq pk

\* _check_all_shortcut_combinations: is_match of one shortcut, pk being
\* self.pressed_keys
IsMatch(sc, pk) ==
    /\ sc.target_keys \subseteq pk
    /\ (pk \ sc.target_keys) \cap MODIFIER_KEYS = {}

\* A faulty variant of KeyDownSuppress: a completing modifier key is suppressed too.
KeyDownSuppressModifiers(code) ==
    LET pk == pressed_keys \cup {code}
    IN  \E sc \in ShortcutSet :
            /\ code \in sc.target_keys
            /\ sc.target_keys \subseteq pk
            /\ (pk \ sc.target_keys) \cap MODIFIER_KEYS = {}

\* A faulty variant of KeyDownSuppress: any key pressed while a shortcut is
\* fully pressed is suppressed.
KeyDownSuppressAnyKey(code) ==
    LET pk == pressed_keys \cup {code}
    IN  /\ code \notin MODIFIER_KEYS
        /\ \E sc \in ShortcutSet :
               /\ sc.target_keys \subseteq pk
               /\ (pk \ sc.target_keys) \cap MODIFIER_KEYS = {}

\* A faulty variant of KeyDownSuppress: the key is suppressed only when the
\* shortcut it completes is activated by it.
KeyDownSuppressWhenActivated(code) ==
    LET pk == pressed_keys \cup {code}
    IN  /\ code \notin MODIFIER_KEYS
        /\ \E sc \in ShortcutSet :
               /\ code \in sc.target_keys
               /\ sc.target_keys \subseteq pk
               /\ (pk \ sc.target_keys) \cap MODIFIER_KEYS = {}
               /\ sc.id \notin active_shortcuts
               /\ now - GetTime(last_trigger_times, sc.id) > debounce_time

\* _process_event, key down: should_suppress
KeyDownSuppress(code) ==
    LET pk == pressed_keys \cup {code}
    IN  /\ code \notin MODIFIER_KEYS
        /\ \E sc \in ShortcutSet :
               /\ code \in sc.target_keys
               /\ sc.target_keys \subseteq pk
               /\ (pk \ sc.target_keys) \cap MODIFIER_KEYS = {}

\* A faulty variant of Triggered: one debounce interval for all shortcuts.
TriggeredGlobalDebounce(pk) ==
    {sc \in ShortcutSet :
        /\ IsMatch(sc, pk)
        /\ sc.id \notin active_shortcuts
        /\ \A id \in DOMAIN last_trigger_times :
               now - last_trigger_times[id] > debounce_time}

\* _check_all_shortcut_combinations: the shortcuts it activates, pk being
\* self.pressed_keys
Triggered(pk) ==
    {sc \in ShortcutSet :
        /\ IsMatch(sc, pk)
        /\ sc.id \notin active_shortcuts
        /\ now - GetTime(last_trigger_times, sc.id) > debounce_time}

\* _check_all_shortcut_combinations: self.active_shortcuts afterwards
ActiveAfterCheck(pk) ==
    (active_shortcuts \cup {sc.id : sc \in Triggered(pk)})
        \ {sc.id : sc \in {x \in ShortcutSet : ~IsMatch(x, pk)}}

\* _trigger_callback: the shortcuts whose press callback is started by a key
\* down of code
PressCallbacks(code) ==
    {sc.id : sc \in {x \in Triggered(pressed_keys \cup {code}) : x.callback}}

\* _check_all_combinations_release: the shortcuts it treats as released and
\* not debounced, pk being self.pressed_keys and was_active the ids active
\* before the event
Released(pk, was_active) ==
    {sc \in ShortcutSet :
        /\ sc.id \in was_active
        /\ ~(sc.target_keys \subseteq pk)
        /\ now - GetTime(last_release_times, sc.id) > debounce_time}

\* _trigger_release_callback: the shortcuts whose release callback is started
\* by a key up of code
ReleaseCallbacks(code) ==
    {sc.id : sc \in {x \in Released(pressed_keys \ {code}, active_shortcuts) :
                        x.release_callback}}

\* A faulty variant of SuppressedAfterKeyUp: the released key stays suppressed.
SuppressedAfterKeyUpKept(code) == suppressed_keys

\* _process_event, key up: self.suppressed_keys afterwards
SuppressedAfterKeyUp(code) == suppressed_keys \ {code}

\* A faulty variant of ShouldSuppress: a key-up is never suppressed.
ShouldSuppressDownOnly(kind, code) ==
    CASE kind = "down" -> KeyDownSuppress(code)
      [] kind = "up" -> FALSE
      [] kind = "repeat" -> code \in suppressed_keys

\* A faulty variant of ShouldSuppress: a key-repeat is never suppressed.
ShouldSuppressNoRepeat(kind, code) ==
    CASE kind = "down" -> KeyDownSuppress(code)
      [] kind = "up" -> code \in suppressed_keys /\ code \notin MODIFIER_KEYS
      [] kind = "repeat" -> FALSE

\* _process_event: should_suppress for an event of the given kind
\* ("down", "up", "repeat": keystate 1, 0, 2)
ShouldSuppress(kind, code) ==
    CASE kind = "down" -> KeyDownSuppress(code)
      [] kind = "up" -> code \in suppressed_keys /\ code \notin MODIFIER_KEYS
      [] kind = "repeat" -> code \in suppressed_keys

\* event.value of a key event of the given kind
KeyValue(kind) ==
    CASE kind = "down" -> 1
      [] kind = "up" -> 0
      [] kind = "repeat" -> 2

\* A faulty variant of UinputWrites: suppressed events are re-emitted too.
UinputWritesUnfiltered(kind, code) ==
    IF uinput # "None" /\ devices_grabbed
    THEN <<[type |-> "EV_KEY", code |-> code, value |-> KeyValue(kind)],
           [type |-> "EV_SYN", code |-> 0, value |-> 0]>>
    ELSE <<>>

\* _process_event: what it writes to the virtual keyboard for a key event,
\* uinput.write(EV_KEY, code, value) followed by uinput.syn()
UinputWrites(kind, code) ==
    IF uinput # "None" /\ devices_grabbed /\ ~ShouldSuppress(kind, code)
    THEN <<[type |-> "EV_KEY", code |-> code, value |-> KeyValue(kind)],
           [type |-> "EV_SYN", code |-> 0, value |-> 0]>>
    ELSE <<>>

\* _process_event: what it writes to the virtual keyboard for an event that
\* is not a key event; nothing else is done with such an event
UinputWritesOther(type, code, value) ==
    IF uinput # "None" /\ devices_grabbed
    THEN <<[type |-> type, code |-> code, value |-> value]>>
    ELSE <<>>

\* _trigger_callback, _trigger_release_callback: last_callback after callback
\* threads of the given kind are started for the shortcuts ids
Started(ids, kind) ==
    [id \in DOMAIN last_callback \cup ids |->
        IF id \in ids THEN kind ELSE last_callback[id]]

\* The callback last started for shortcut id: "press", "release", or "none"
\* when none was started yet.
LastCallback(id) ==
    IF id \in DOMAIN last_callback THEN last_callback[id] ELSE "none"

\* A faulty variant of WorkerAfterDispatch: the callbacks are called on the
\* worker thread, and do not return.
WorkerAfterInlineCall(ids) == IF ids = {} THEN listener_thread ELSE "blocked"

\* _trigger_callback, _trigger_release_callback: the worker after
\* threading.Thread(target=callback, daemon=True).start() for the shortcuts
\* ids; start() returns whether or not the callback ever does
WorkerAfterDispatch(ids) == listener_thread

\* _process_event for an EV_KEY event
ProcessEvent(kind, code) ==
    /\ \/ /\ kind = "down"
          /\ pressed_keys' = pressed_keys \cup {code}
          /\ suppressed_keys' = IF KeyDownSuppress(code)
                                THEN suppressed_keys \cup {code}
                                ELSE suppressed_keys
          /\ last_trigger_times' =
                 SetTimes(last_trigger_times,
                          {sc.id : sc \in Triggered(pressed_keys \cup {code})}, now)
          /\ active_shortcuts' = ActiveAfterCheck(pressed_keys \cup {code})
          /\ last_callback' = Started(PressCallbacks(code), "press")
          /\ listener_thread' = WorkerAfterDispatch(PressCallbacks(code))
          /\ UNCHANGED last_release_times
       \/ /\ kind = "up"
          /\ pressed_keys' = pressed_keys \ {code}
          /\ suppressed_keys' = SuppressedAfterKeyUp(code)
          /\ last_release_times' =
                 SetTimes(last_release_times,
                          {sc.id : sc \in Released(pressed_keys \ {code},
                                                   active_shortcuts)}, now)
          /\ last_callback' = Started(ReleaseCallbacks(code), "release")
          /\ listener_thread' = WorkerAfterDispatch(ReleaseCallbacks(code))
          /\ UNCHANGED <<active_shortcuts, last_trigger_times>>
       \/ /\ kind = "repeat"
          /\ UNCHANGED <<pressed_keys, suppressed_keys, active_shortcuts,
                         last_trigger_times, last_release_times,
                         last_callback, listener_thread>>
    /\ UNCHANGED <<selected_device_path, grab_keys, devices, device_fds,
                   is_running, stop_event, uinput,
                   devices_grabbed, shortcuts, all_required_keys, now, osState,
                   osGrabbed, osOpen, osVirtual, ret>>

(***************************************************************************)
(* Event loop.                                                             *)
(***************************************************************************)
\* The worker is in its loop and select() reports device d.
WorkerReads(d) ==
    /\ listener_thread = "alive"
    /\ ~stop_event
    /\ d \in Range(devices)
    /\ Fd(d) \in DOMAIN device_fds

\* _event_loop: device d delivers a key event, which is processed.
ReadEvent(d, kind, code) ==
    /\ WorkerReads(d)
    /\ osState[d] = "ok"
    /\ code \in SysDevices[d].keys
    /\ ProcessEvent(kind, code)
    /\ UNCHANGED <<loop_pc, ready_fds, orphans, held_down, orderVars>>

\* _event_loop: device.read() raises OSError on the unplugged device d.
ReadError(d) ==
    /\ WorkerReads(d)
    /\ osState[d] = "gone"
    /\ devices' = DevicesAfterRemove(d)
    /\ device_fds' = DeviceFdsAfterRemove(d)
    /\ osOpen' = osOpen \ {d}
    /\ osGrabbed' = osGrabbed \ {d}
    /\ UNCHANGED <<selected_device_path, grab_keys, listener_thread, is_running,
                   stop_event, uinput, devices_grabbed, pressed_keys,
                   suppressed_keys, active_shortcuts, last_trigger_times,
                   last_release_times, shortcuts, all_required_keys, now,
                   osState, osVirtual, ret>>
    /\ UNCHANGED <<last_callback, loop_pc, ready_fds, orphans, held_down,
        orderVars>>

(***************************************************************************)
(* Environment.                                                            *)
(***************************************************************************)
\* Time passes.
Tick ==
    /\ now + TickMs <= StartMs + MaxTicks * TickMs
    /\ now' = now + TickMs
    /\ UNCHANGED <<selected_device_path, grab_keys, devices, device_fds,
                   listener_thread, is_running, stop_event, uinput,
                   devices_grabbed, pressed_keys, suppressed_keys,
                   active_shortcuts, last_trigger_times, last_release_times,
                   shortcuts, all_required_keys, osState, osGrabbed, osOpen,
                   osVirtual, ret>>
    /\ UNCHANGED <<last_callback, loop_pc, ready_fds, orphans, held_down,
        orderVars>>

\* Device d is unplugged.
Unplug(d) ==
    /\ osState[d] # "gone"
    /\ osState' = [osState EXCEPT ![d] = "gone"]
    /\ UNCHANGED <<selected_device_path, grab_keys, devices, device_fds,
                   listener_thread, is_running, stop_event, uinput,
                   devices_grabbed, pressed_keys, suppressed_keys,
                   active_shortcuts, last_trigger_times, last_release_times,
                   shortcuts, all_required_keys, now, osGrabbed, osOpen,
                   osVirtual, ret>>
    /\ UNCHANGED <<last_callback, loop_pc, ready_fds, orphans, held_down,
        orderVars>>

\* Another process takes the exclusive grab of device d.
Seize(d) ==
    /\ osState[d] = "ok"
    /\ d \notin osGrabbed
    /\ osState' = [osState EXCEPT ![d] = "busy"]
    /\ UNCHANGED <<selected_device_path, grab_keys, devices, device_fds,
                   listener_thread, is_running, stop_event, uinput,
                   devices_grabbed, pressed_keys, suppressed_keys,
                   active_shortcuts, last_trigger_times, last_release_times,
                   shortcuts, all_required_keys, now, osGrabbed, osOpen,
                   osVirtual, ret>>
    /\ UNCHANGED <<last_callback, loop_pc, ready_fds, orphans, held_down,
        orderVars>>

\* The other process releases its exclusive grab of device d; the device's
\* events are delivered again to every reader.
Release(d) ==
    /\ osState[d] = "busy"
    /\ osState' = [osState EXCEPT ![d] = "ok"]
    /\ UNCHANGED <<selected_device_path, grab_keys, devices, device_fds,
                   listener_thread, is_running, stop_event, uinput,
                   devices_grabbed, pressed_keys, suppressed_keys,
                   active_shortcuts, last_trigger_times, last_release_times,
                   shortcuts, all_required_keys, now, osGrabbed, osOpen,
                   osVirtual, ret>>
    /\ UNCHANGED <<last_callback, loop_pc, ready_fds, orphans, held_down,
        orderVars>>

(***************************************************************************)
(* Inputs.                                                                 *)
(***************************************************************************)
\* Combination strings registered in the engine specification.
EngineCombos == {<<"c","t","r","l","+","a","l","t","+","d">>, <<"c","t","r","l","+","d">>, <<"f","1","2">>}

\* Combination strings and keys of the lifecycle specification.
LifeCombos == {<<"f","1","2">>, <<"c","t","r","l","+","d">>, <<"c","t","r","l","+","b","o","g","u","s">>}
LifeKeys == {KEY_F12, KEY_D}
LifePaths == {NoPath, "/dev/input/event0", "/dev/input/event1", "/dev/input/event2", "/dev/input/event9"}

EventKinds == {"down", "up", "repeat"}

(***************************************************************************)
(* Specifications.                                                         *)
(***************************************************************************)
\* GlobalShortcuts.__init__
Constructed ==
    /\ devices = <<>>
    /\ device_fds = [fd \in {} |-> 0]
    /\ listener_thread = "None"
    /\ is_running = FALSE
    /\ stop_event = FALSE
    /\ uinput = "None"
    /\ devices_grabbed = FALSE
    /\ pressed_keys = {}
    /\ last_trigger_times = [id \in {} |-> 0]
    /\ last_release_times = [id \in {} |-> 0]
    /\ active_shortcuts = {}
    /\ suppressed_keys = {}
    /\ shortcuts = <<>>
    /\ all_required_keys = {}
    /\ now = StartMs
    /\ osGrabbed = {}
    /\ osOpen = {}
    /\ osVirtual = 0
    /\ ret = [op |-> "init", arg |-> <<>>, ok |-> TRUE, id |-> NoId]
    /\ last_callback = [id \in {} |-> "press"]
    /\ loop_pc = "none"
    /\ ready_fds = <<>>
    /\ orphans = 0
    /\ held_down = [code \in EventKeys |-> "up"]
    /\ reported = [d \in DeviceIds |-> <<>>]
    /\ read_count = [d \in DeviceIds |-> 0]
    /\ batch = [worker |-> <<>>, orphans |-> <<>>]
    /\ engine_log = <<>>
    /\ written = <<>>

\* The engine specification: GlobalShortcuts() with its default arguments on
\* a machine whose devices stay plugged in and accessible.
Init ==
    /\ Constructed
    /\ selected_device_path = NoPath
    /\ grab_keys = TRUE
    /\ osState = [d \in DeviceIds |-> "ok"]

Next ==
    \/ /\ Len(shortcuts) < MaxShortcuts
       /\ \E s \in EngineCombos : AddShortcut(s, TRUE)
    \/ Start(TRUE, {})
    \/ Stop
    \/ \E d \in DeviceIds, kind \in EventKinds, code \in EventKeys :
           ReadEvent(d, kind, code)
    \/ Tick

Spec == Init /\ [][Next]_vars

\* The lifecycle specification: any constructor arguments, devices that come
\* and go, grabs and the virtual device that fail.
InitLife ==
    /\ Constructed
    /\ selected_device_path \in LifePaths
    /\ grab_keys \in BOOLEAN
    /\ osState = [d \in DeviceIds |-> "ok"]

NextLife ==
    \/ /\ Len(shortcuts) < MaxLifeShortcuts
       /\ \E s \in LifeCombos, rc \in BOOLEAN : AddShortcut(s, rc)
    \/ \E uinput_ok \in BOOLEAN, seized \in SUBSET DeviceIds :
           Start(uinput_ok, seized)
    \/ Stop
    \/ \E d \in DeviceIds, kind \in EventKinds, code \in LifeKeys :
           ReadEvent(d, kind, code)
    \/ \E d \in DeviceIds : ReadError(d)
    \/ \E d \in DeviceIds : Release(d)
    \/ \E d \in DeviceIds : Unplug(d)
    \/ \E d \in DeviceIds : Seize(d)

SpecLife == InitLife /\ [][NextLife]_vars

(***************************************************************************)
(* Inputs of the parser specification: combinations in many spellings.     *)
(***************************************************************************)
\* The spellings of one key: aliases of KEY_ALIASES and raw evdev names.
Spellings(code) ==
    CASE code = KEY_LEFTCTRL ->
             {<<"c","t","r","l">>, <<"c","o","n","t","r","o","l">>, <<"l","c","t","r","l">>, <<"l","e","f","t","c","t","r","l">>, <<"k","e","y","_","l","e","f","t","c","t","r","l">>}
      [] code = KEY_LEFTALT -> {<<"a","l","t">>, <<"l","a","l","t">>}
      [] code = KEY_D -> {<<"d">>, <<"k","e","y","_","d">>}
      [] code = KEY_F12 -> {<<"f","1","2">>}

\* Segments that resolve to no key.
BogusSegments == {<<"b","o","g","u","s">>, <<>>}

\* The combinations written, as sequences of keys.
Combos == {<<KEY_LEFTCTRL, KEY_LEFTALT, KEY_D>>, <<KEY_LEFTCTRL, KEY_D>>, <<KEY_F12>>}

Styles == {"plain", "upper", "capital", "angle", "spaced"}

RECURSIVE Join(_, _)
Join(segs, sep) ==
    IF segs = <<>> THEN <<>>
    ELSE IF Len(segs) = 1 THEN Head(segs)
    ELSE Head(segs) \o sep \o Join(Tail(segs), sep)

Capitalize(seg) == IF seg = <<>> THEN seg ELSE <<UpperChar(Head(seg))>> \o Tail(seg)

\* The combination string of the given segments in the given style, such as
\* "ctrl+d", "CTRL+D", "Ctrl+D", "<ctrl>+<d>" and " ctrl + d ".
Render(segs, style) ==
    CASE style = "plain" -> Join(segs, <<"+">>)
      [] style = "upper" -> Upper(Join(segs, <<"+">>))
      [] style = "capital" ->
             Join([i \in 1..Len(segs) |-> Capitalize(segs[i])], <<"+">>)
      [] style = "angle" ->
             Join([i \in 1..Len(segs) |-> <<"<">> \o segs[i] \o <<">">>], <<"+">>)
      [] style = "spaced" ->
             <<" ">> \o Join(segs, <<" ", "+", "\t">>) \o <<"\t", " ">>

\* Every way of spelling the keys of a combination.
SpellingChoices(combo) ==
    {segs \in [1..Len(combo) -> UNION {Spellings(combo[i]) : i \in 1..Len(combo)}] :
        \A i \in 1..Len(combo) : segs[i] \in Spellings(combo[i])}

\* Valid combination strings, each with the combination it spells.
ValidCases ==
    UNION {{[text |-> Render(segs, style), valid |-> TRUE, combo |-> combo] :
               segs \in SpellingChoices(combo), style \in Styles} :
           combo \in Combos}

\* A spelling of a combination with one segment replaced by a bogus one.
InvalidCases ==
    UNION {{[text |-> Render([segs EXCEPT ![i] = bogus], style),
             valid |-> FALSE, combo |-> combo] :
               segs \in SpellingChoices(combo), i \in 1..Len(combo),
               bogus \in BogusSegments, style \in Styles} :
           combo \in Combos}

ParseCases == ValidCases \cup InvalidCases

ParseInputs == {c.text : c \in ParseCases}

\* The parser specification: add_shortcut is called on combination strings
\* until MaxParseShortcuts are registered or a call is refused (a refused call
\* leaves the registry as it was, so the calls after it are those before it).
NextParse ==
    /\ Len(shortcuts) < MaxParseShortcuts
    /\ ~(ret.op = "add_shortcut" /\ ~ret.ok)
    /\ \E s \in ParseInputs : AddShortcut(s, TRUE)

SpecParse == Init /\ [][NextParse]_vars


(***************************************************************************)
(* The worker loop, step by step (specification SpecLoop).                 *)
(***************************************************************************)
\* What the steps of _event_loop leave unchanged.
LoopFrame ==
    UNCHANGED <<selected_device_path, grab_keys, is_running, stop_event, uinput,
                devices_grabbed, shortcuts, all_required_keys, now, osState,
                osVirtual, ret, orphans, held_down, orderVars>>

\* What the steps of _event_loop that process no key event leave unchanged.
EngineFrame ==
    UNCHANGED <<pressed_keys, suppressed_keys, active_shortcuts,
                last_trigger_times, last_release_times, last_callback>>

\* _event_loop, line 340: the worker tests the stop signal, then whether
\* there are devices.
LoopTest ==
    /\ listener_thread = "alive"
    /\ loop_pc = "test"
    /\ IF stop_event
       THEN listener_thread' = "exited" /\ loop_pc' = "exited"
       ELSE /\ loop_pc' = IF devices = <<>> THEN "sleep" ELSE "select"
            /\ UNCHANGED listener_thread
    /\ UNCHANGED <<devices, device_fds, osGrabbed, osOpen, ready_fds>>
    /\ LoopFrame /\ EngineFrame

\* _event_loop, lines 341-343: time.sleep(0.1) returns.
LoopSleep ==
    /\ listener_thread = "alive"
    /\ loop_pc = "sleep"
    /\ loop_pc' = "test"
    /\ UNCHANGED <<listener_thread, devices, device_fds, osGrabbed, osOpen,
                   ready_fds>>
    /\ LoopFrame /\ EngineFrame

\* _event_loop, lines 346-347: select() returns within 0.1 s with the devices
\* of ready that have something to read, in the order of self.devices; none
\* when it timed out.
LoopSelect(ready) ==
    /\ listener_thread = "alive"
    /\ loop_pc = "select"
    /\ ready_fds' = SelectSeq(devices, LAMBDA d : d \in ready)
    /\ loop_pc' = "drain"
    /\ UNCHANGED <<listener_thread, devices, device_fds, osGrabbed, osOpen>>
    /\ LoopFrame /\ EngineFrame

\* _event_loop, lines 349-360: the next device of ready_fds is read.  A
\* device no longer in self.device_fds is skipped; read() on an unplugged
\* device raises OSError and the device is removed; otherwise read() yields
\* no key event, or the key event (kind, code), which is processed.  With
\* ready_fds exhausted the worker returns to the loop test.
LoopDrain(has_event, kind, code) ==
    /\ listener_thread = "alive"
    /\ loop_pc = "drain"
    /\ UNCHANGED <<orphans, held_down, orderVars>>
    /\ IF ready_fds = <<>>
       THEN /\ ~has_event
            /\ loop_pc' = "test"
            /\ UNCHANGED <<listener_thread, devices, device_fds, osGrabbed,
                           osOpen, ready_fds, selected_device_path, grab_keys,
                           is_running, stop_event, uinput, devices_grabbed,
                           shortcuts, all_required_keys, now, osState,
                           osVirtual, ret>>
            /\ EngineFrame
       ELSE LET d == Head(ready_fds)
            IN  /\ ready_fds' = Tail(ready_fds)
                /\ UNCHANGED loop_pc
                /\ IF Fd(d) \notin DOMAIN device_fds
                   THEN /\ ~has_event
                        /\ UNCHANGED <<listener_thread, devices, device_fds,
                                       osGrabbed, osOpen, selected_device_path,
                                       grab_keys, is_running, stop_event,
                                       uinput, devices_grabbed, shortcuts,
                                       all_required_keys, now, osState,
                                       osVirtual, ret>>
                        /\ EngineFrame
                   ELSE IF osState[d] = "gone"
                   THEN /\ ~has_event
                        /\ devices' = DevicesAfterRemove(d)
                        /\ device_fds' = DeviceFdsAfterRemove(d)
                        /\ osOpen' = osOpen \ {d}
                        /\ osGrabbed' = osGrabbed \ {d}
                        /\ UNCHANGED <<listener_thread, selected_device_path,
                                       grab_keys, is_running, stop_event,
                                       uinput, devices_grabbed, shortcuts,
                                       all_required_keys, now, osState,
                                       osVirtual, ret>>
                        /\ EngineFrame
                   ELSE IF has_event
                   THEN /\ code \in SysDevices[d].keys
                        /\ ProcessEvent(kind, code)
                   ELSE /\ UNCHANGED <<listener_thread, devices, device_fds,
                                       osGrabbed, osOpen, selected_device_path,
                                       grab_keys, is_running, stop_event,
                                       uinput, devices_grabbed, shortcuts,
                                       all_required_keys, now, osState,
                                       osVirtual, ret>>
                        /\ EngineFrame

\* _event_loop, line 340, in a worker that a later start() replaced: it finds
\* the stop signal set and exits.
OrphanExit ==
    /\ orphans > 0
    /\ stop_event
    /\ orphans' = orphans - 1
    /\ UNCHANGED <<held_down, orderVars>>
    /\ UNCHANGED <<selected_device_path, grab_keys, devices, device_fds,
                   listener_thread, is_running, stop_event, uinput,
                   devices_grabbed, shortcuts, all_required_keys, now, osState,
                   osGrabbed, osOpen, osVirtual, ret, loop_pc, ready_fds>>
    /\ EngineFrame

\* _event_loop, lines 349-356, in a worker that a later start() replaced: it
\* reads a key event from device d and processes it.
OrphanReads(d, kind, code) ==
    /\ orphans > 0
    /\ d \in Range(devices)
    /\ Fd(d) \in DOMAIN device_fds
    /\ osState[d] = "ok"
    /\ code \in SysDevices[d].keys
    /\ ProcessEvent(kind, code)
    /\ UNCHANGED <<loop_pc, ready_fds, orphans, held_down, orderVars>>

\* GlobalShortcuts.stop, line 594: stop_event.set().
StopSignal ==
    /\ is_running
    /\ ~stop_event
    /\ stop_event' = TRUE
    /\ UNCHANGED <<selected_device_path, grab_keys, devices, device_fds,
                   listener_thread, is_running, uinput, devices_grabbed,
                   shortcuts, all_required_keys, now, osState, osGrabbed,
                   osOpen, osVirtual, ret, loop_pc, ready_fds, orphans,
                   held_down, orderVars>>
    /\ EngineFrame

\* GlobalShortcuts.stop, lines 596-606: join(timeout=1.0) returns, the worker
\* having exited or, after one second, still being alive; then the cleanup.
StopFinish ==
    /\ is_running
    /\ stop_event
    /\ StopCleanup
    /\ ret' = [op |-> "stop", arg |-> <<>>, ok |-> TRUE, id |-> NoId]
    /\ UNCHANGED <<selected_device_path, grab_keys, listener_thread, stop_event,
                   active_shortcuts, last_trigger_times, last_release_times,
                   shortcuts, all_required_keys, now, osState, last_callback,
                   loop_pc, ready_fds, orphans, held_down, orderVars>>

\* Keys and kinds of the events of the worker-loop specification.
LoopKeys == {KEY_F12, KEY_D}
LoopKinds == {"down", "up", "repeat"}

\* The worker-loop specification: GlobalShortcuts() with its default
\* arguments; start() and stop() are called one after the other by one
\* thread, stop() in two steps; the worker runs _event_loop step by step;
\* devices can be unplugged.
NextLoop ==
    \/ /\ Len(shortcuts) < MaxLoopShortcuts
       /\ AddShortcut(<<"f","1","2">>, TRUE)
    \/ /\ ~(is_running /\ stop_event)
       /\ listener_thread = "alive" => orphans < MaxOrphans
       /\ Start(TRUE, {})
    \/ StopSignal
    \/ StopFinish
    \/ LoopTest
    \/ LoopSleep
    \/ \E ready \in SUBSET DeviceIds : LoopSelect(ready)
    \/ \E has_event \in BOOLEAN, kind \in LoopKinds, code \in LoopKeys :
           LoopDrain(has_event, kind, code)
    \/ OrphanExit
    \/ \E d \in DeviceIds, kind \in LoopKinds, code \in LoopKeys :
           OrphanReads(d, kind, code)
    \/ \E d \in DeviceIds : Unplug(d)

\* Every worker thread is scheduled again and again: sleep() and select()
\* return after 0.1 s at the latest, and read() does not block on a device
\* select() reported.
LoopFairness ==
    /\ WF_vars(LoopTest)
    /\ WF_vars(LoopSleep)
    /\ WF_vars(\E ready \in SUBSET DeviceIds : LoopSelect(ready))
    /\ WF_vars(\E has_event \in BOOLEAN, kind \in LoopKinds, code \in LoopKeys :
                   LoopDrain(has_event, kind, code))
    /\ WF_vars(OrphanExit)

SpecLoop == Init /\ [][NextLoop]_vars /\ LoopFairness

\* The event-loop workers alive.
AliveWorkers == orphans + IF listener_thread = "alive" THEN 1 ELSE 0

(***************************************************************************)
(* Key streams in which every key's down and up events alternate           *)
(* (specification SpecKeys).                                               *)
(***************************************************************************)
\* _event_loop: device d delivers a key event, which is processed; the event
\* is a key-down of a key whose latest event was a key-up (or that had no
\* event yet), or a key-up or key-repeat of a key whose latest event was a
\* key-down or key-repeat.  held_down records how the key-down was marked.
KeyEvent(d, kind, code) ==
    /\ WorkerReads(d)
    /\ osState[d] = "ok"
    /\ code \in SysDevices[d].keys
    /\ (kind = "down") = (held_down[code] = "up")
    /\ ProcessEvent(kind, code)
    /\ held_down' = [held_down EXCEPT ![code] =
                        CASE kind = "down" -> IF ShouldSuppress("down", code)
                                              THEN "suppressed" ELSE "passed"
                          [] kind = "up" -> "up"
                          [] kind = "repeat" -> @]
    /\ UNCHANGED <<loop_pc, ready_fds, orphans>>
    /\ UNCHANGED orderVars

\* Combination strings and keys of the key-stream specification.
KeyCombos == {<<"f","1","2">>, <<"c","t","r","l","+","d">>}
StreamKeys == {KEY_LEFTCTRL, KEY_D, KEY_F12}

\* The key-stream specification: GlobalShortcuts() with its default
\* arguments, up to MaxKeyShortcuts shortcuts, among them two registrations
\* of one combination.
NextKeys ==
    \/ /\ Len(shortcuts) < MaxKeyShortcuts
       /\ \E s \in KeyCombos : AddShortcut(s, TRUE)
    \/ Start(TRUE, {})
    \/ Stop
    \/ \E d \in DeviceIds, kind \in EventKinds, code \in StreamKeys :
           KeyEvent(d, kind, code)
    \/ /\ now < StartMs + MaxKeyTicks * TickMs
       /\ Tick

SpecKeys == Init /\ [][NextKeys]_vars

(***************************************************************************)
(* The order of events (specification SpecOrder).                          *)
(***************************************************************************)
\* Key events reported by the devices in one run.
MaxReported == 2
\* Shortcuts registered in one run of the order specification.
MaxOrderShortcuts == 1

\* Keys and kinds of the events of the order specification.
OrderKeys == {KEY_F12, KEY_D}
OrderKinds == {"down", "up"}

\* The events reported so far: number n of device d.
ReportedEvents ==
    UNION {{[d |-> d, n |-> n] : n \in 1..Len(reported[d])} : d \in DeviceIds}

\* list(device.read()), line 353: the events device d reported that no read()
\* returned yet, in the order reported.
Pending(d) ==
    [i \in 1..(Len(reported[d]) - read_count[d]) |->
        [d |-> d, n |-> read_count[d] + i]]

\* What the steps of the order specification leave unchanged.
OrderFrame ==
    UNCHANGED <<selected_device_path, grab_keys, is_running, stop_event, uinput,
                devices_grabbed, shortcuts, all_required_keys, now, osState,
                osVirtual, ret, held_down>>

\* A monitored device reports the key event (kind, code) to its readers.
Report(d, kind, code) ==
    /\ Cardinality(ReportedEvents) < MaxReported
    /\ d \in Range(devices)
    /\ Fd(d) \in DOMAIN device_fds
    /\ osState[d] = "ok"
    /\ code \in SysDevices[d].keys
    /\ reported' = [reported EXCEPT ![d] = Append(@, [kind |-> kind, code |-> code])]
    /\ UNCHANGED <<listener_thread, devices, device_fds, osGrabbed, osOpen,
                   loop_pc, ready_fds, orphans, read_count, batch, engine_log,
                   written>>
    /\ OrderFrame /\ EngineFrame

\* _process_event(event) called by a worker for event e of a device: the
\* engine processes it, should_suppress is decided (lines 391-434) and the
\* event is written to the virtual device when it is not suppressed (436-440).
ProcessLogged(e, by) ==
    LET event == reported[e.d][e.n]
    IN  /\ ProcessEvent(event.kind, event.code)
        /\ engine_log' = Append(engine_log,
                                [d |-> e.d, n |-> e.n, by |-> by,
                                 suppress |-> ShouldSuppress(event.kind, event.code)])
        /\ written' = IF UinputWrites(event.kind, event.code) # <<>>
                      THEN Append(written, e)
                      ELSE written
        /\ UNCHANGED <<reported, read_count, held_down>>

\* _event_loop, lines 349-360: the next device of ready_fds is read.  A
\* device no longer in self.device_fds is skipped; read() on an unplugged
\* device raises OSError and the device is removed; otherwise
\* list(device.read()) returns all the events pending on the device.  With
\* ready_fds exhausted the worker returns to the loop test.
DrainRead ==
    /\ listener_thread = "alive"
    /\ loop_pc = "drain"
    /\ UNCHANGED <<listener_thread, orphans, reported, engine_log, written>>
    /\ OrderFrame /\ EngineFrame
    /\ IF ready_fds = <<>>
       THEN /\ loop_pc' = "test"
            /\ UNCHANGED <<devices, device_fds, osGrabbed, osOpen, ready_fds,
                           read_count, batch>>
       ELSE LET d == Head(ready_fds)
            IN  /\ ready_fds' = Tail(ready_fds)
                /\ IF Fd(d) \notin DOMAIN device_fds
                   THEN UNCHANGED <<devices, device_fds, osGrabbed, osOpen,
                                    loop_pc, read_count, batch>>
                   ELSE IF osState[d] = "gone"
                   THEN /\ devices' = DevicesAfterRemove(d)
                        /\ device_fds' = DeviceFdsAfterRemove(d)
                        /\ osOpen' = osOpen \ {d}
                        /\ osGrabbed' = osGrabbed \ {d}
                        /\ UNCHANGED <<loop_pc, read_count, batch>>
                   ELSE /\ read_count' = [read_count EXCEPT ![d] = Len(reported[d])]
                        /\ batch' = [batch EXCEPT !.worker = Pending(d)]
                        /\ loop_pc' = IF Pending(d) = <<>> THEN "drain" ELSE "process"
                        /\ UNCHANGED <<devices, device_fds, osGrabbed, osOpen>>

\* _event_loop, lines 354-355: the worker passes the next event of the list
\* it read to _process_event; at the end of the list it goes on with
\* ready_fds.
DrainProcess ==
    /\ listener_thread = "alive"
    /\ loop_pc = "process"
    /\ batch.worker # <<>>
    /\ ProcessLogged(Head(batch.worker), "worker")
    /\ batch' = [batch EXCEPT !.worker = Tail(@)]
    /\ loop_pc' = IF Tail(batch.worker) = <<>> THEN "drain" ELSE "process"
    /\ UNCHANGED <<ready_fds, orphans>>

\* _event_loop, line 353, in a worker that a later start() replaced and that
\* holds no events: list(device.read()) returns the events pending on the
\* monitored device d.
OrphanRead(d) ==
    /\ Len(batch.orphans) < orphans
    /\ d \in Range(devices)
    /\ Fd(d) \in DOMAIN device_fds
    /\ osState[d] = "ok"
    /\ Pending(d) # <<>>
    /\ read_count' = [read_count EXCEPT ![d] = Len(reported[d])]
    /\ batch' = [batch EXCEPT !.orphans = Append(@, Pending(d))]
    /\ UNCHANGED <<listener_thread, devices, device_fds, osGrabbed, osOpen,
                   loop_pc, ready_fds, orphans, reported, engine_log, written>>
    /\ OrderFrame /\ EngineFrame

\* _event_loop, lines 354-355, in a worker that a later start() replaced: it
\* passes the next event of the list it read to _process_event.
OrphanProcess(i) ==
    /\ i \in 1..Len(batch.orphans)
    /\ ProcessLogged(Head(batch.orphans[i]), "orphan")
    /\ batch' = [batch EXCEPT !.orphans =
                     IF Tail(@[i]) = <<>>
                     THEN SubSeq(@, 1, i - 1) \o SubSeq(@, i + 1, Len(@))
                     ELSE [@ EXCEPT ![i] = Tail(@)]]
    /\ UNCHANGED <<loop_pc, ready_fds, orphans>>

\* The order specification: GlobalShortcuts() with its default arguments and
\* the shortcut f12; start() and stop() are called one after the other by
\* one thread, stop() in two steps; the devices report key events; every
\* worker reads the events pending on a device and processes them one by one;
\* devices can be unplugged.
NextOrder ==
    \/ /\ Len(shortcuts) < MaxOrderShortcuts
       /\ AddShortcut(<<"f","1","2">>, TRUE)
    \/ /\ ~(is_running /\ stop_event)
       /\ listener_thread = "alive" => orphans < MaxOrphans
       /\ Start(TRUE, {})
    \/ StopSignal
    \/ StopFinish
    \/ LoopTest
    \/ LoopSleep
    \/ \E ready \in SUBSET DeviceIds : LoopSelect(ready)
    \/ DrainRead
    \/ DrainProcess
    \/ /\ Len(batch.orphans) < orphans
       /\ OrphanExit
    \/ \E d \in DeviceIds : OrphanRead(d)
    \/ \E i \in 1..MaxOrphans : OrphanProcess(i)
    \/ \E d \in DeviceIds, kind \in OrderKinds, code \in OrderKeys :
           Report(d, kind, code)
    \/ \E d \in DeviceIds : Unplug(d)

SpecOrder == Init /\ [][NextOrder]_vars
(***************************************************************************)
(* Properties of the matching engine (specification Spec).                 *)
(***************************************************************************)
\* The worker can be handed a key event with this code by some monitored
\* device.
EventPossible(code) ==
    \E d \in DeviceIds :
        WorkerReads(d) /\ osState[d] = "ok" /\ code \in SysDevices[d].keys

\* C1: after every processed key-down, key-up and key-repeat event, and after
\* every start() and stop(), suppressed_keys is a subset of pressed_keys.
C1_SuppressedSubsetOfPressed == suppressed_keys \subseteq pressed_keys

\* A key of a matched shortcut is held and suppressed while another is held.
C1_Witness ==
    /\ listener_thread = "alive"
    /\ suppressed_keys # {}
    /\ pressed_keys \ suppressed_keys # {}

\* The shortcut "ctrl+alt+d" is the only one registered, with a release
\* callback, and the worker is reading a keyboard.
OnlyCtrlAltD ==
    /\ Len(shortcuts) = 1
    /\ shortcuts[1].id.s = <<"c","t","r","l","+","a","l","t","+","d">>
    /\ shortcuts[1].release_callback
    /\ \A k \in {KEY_LEFTCTRL, KEY_LEFTALT, KEY_D} : EventPossible(k)

\* C2, first part: key-down ctrl, alt, d in that order invokes the press
\* callback once, on the key-down of d.
C2_FirstActivation ==
    OnlyCtrlAltD /\ shortcuts[1].id \notin DOMAIN last_trigger_times =>
        /\ pressed_keys = {} => PressCallbacks(KEY_LEFTCTRL) = {}
        /\ pressed_keys = {KEY_LEFTCTRL} => PressCallbacks(KEY_LEFTALT) = {}
        /\ pressed_keys = {KEY_LEFTCTRL, KEY_LEFTALT} =>
               PressCallbacks(KEY_D) = {shortcuts[1].id}

\* C2, second part: the key-up of d after the first activation invokes the
\* release callback.
C2_FirstRelease ==
    /\ OnlyCtrlAltD
    /\ pressed_keys = {KEY_LEFTCTRL, KEY_LEFTALT, KEY_D}
    /\ shortcuts[1].id \in active_shortcuts
    /\ shortcuts[1].id \notin DOMAIN last_release_times
    => ReleaseCallbacks(KEY_D) = {shortcuts[1].id}

\* C2, third part: a key-down of d less than 100 ms after the activation, ctrl
\* and alt still held, invokes no press callback.
C2_Debounced ==
    /\ OnlyCtrlAltD
    /\ pressed_keys = {KEY_LEFTCTRL, KEY_LEFTALT}
    /\ shortcuts[1].id \in DOMAIN last_trigger_times
    /\ now - last_trigger_times[shortcuts[1].id] < 100
    => PressCallbacks(KEY_D) = {}

\* C2, fourth part: a key-down of d 150 ms or more after the last activation,
\* ctrl and alt still held and d released in between, invokes the press
\* callback again.
C2_Reactivation ==
    /\ OnlyCtrlAltD
    /\ pressed_keys = {KEY_LEFTCTRL, KEY_LEFTALT}
    /\ shortcuts[1].id \in DOMAIN last_trigger_times
    /\ now - last_trigger_times[shortcuts[1].id] >= 150
    => PressCallbacks(KEY_D) = {shortcuts[1].id}

\* C2: with only "ctrl+alt+d" registered, key-down ctrl, alt, d invokes the
\* press callback once; key-up d invokes the release callback once; d pressed
\* again within 100 ms invokes nothing; d pressed again 150 ms or more after
\* the last activation invokes the press callback again.
C2_Scenario ==
    /\ C2_FirstActivation
    /\ C2_FirstRelease
    /\ C2_Debounced
    /\ C2_Reactivation

\* A key-down of code takes shortcut sc from not fully pressed to fully and
\* validly pressed.
Activates(sc, code) ==
    /\ EventPossible(code)
    /\ ~(sc.target_keys \subseteq pressed_keys)
    /\ sc.target_keys \subseteq pressed_keys \cup {code}
    /\ ((pressed_keys \cup {code}) \ sc.target_keys) \cap MODIFIER_KEYS = {}

\* C3: of two successive activations of one shortcut, the second invokes the
\* press callback if it comes more than 100 ms after the first, and does not
\* if it comes less than 100 ms after it; for single-key shortcuts as for
\* multi-key ones.
C3_DebounceOfActivations ==
    \A sc \in ShortcutSet, code \in EventKeys :
        Activates(sc, code) /\ sc.id \in DOMAIN last_trigger_times =>
            /\ now - last_trigger_times[sc.id] > 100 =>
                   sc.id \in PressCallbacks(code)
            /\ now - last_trigger_times[sc.id] < 100 =>
                   sc.id \notin PressCallbacks(code)

\* C3, the half the code keeps: an activation less than 100 ms after the last
\* invokes no press callback.
C3_TooSoon ==
    \A sc \in ShortcutSet, code \in EventKeys :
        /\ Activates(sc, code)
        /\ sc.id \in DOMAIN last_trigger_times
        /\ now - last_trigger_times[sc.id] < 100
        => sc.id \notin PressCallbacks(code)

\* C4: with a shortcut registered for ctrl+d, no event processed while ctrl,
\* shift and d are pressed (before or after it) adds the shortcut to
\* active_shortcuts or activates it (which records the activation time and
\* invokes the press callback), whatever the order the keys went down in.
C4_ExtraModifierNeverActivates ==
    [][\A sc \in ShortcutSet :
           /\ sc.target_keys = {KEY_LEFTCTRL, KEY_D}
           /\ \/ {KEY_LEFTCTRL, KEY_LEFTSHIFT, KEY_D} \subseteq pressed_keys
              \/ {KEY_LEFTCTRL, KEY_LEFTSHIFT, KEY_D} \subseteq pressed_keys'
           => /\ sc.id \in active_shortcuts' => sc.id \in active_shortcuts
              /\ GetTime(last_trigger_times', sc.id) =
                     GetTime(last_trigger_times, sc.id)]_vars

\* ctrl, shift and d are held with a ctrl+d shortcut registered, which is not
\* active.
C4_Witness ==
    \E sc \in ShortcutSet :
        /\ sc.target_keys = {KEY_LEFTCTRL, KEY_D}
        /\ listener_thread = "alive"
        /\ pressed_keys = {KEY_LEFTCTRL, KEY_LEFTSHIFT, KEY_D}
        /\ sc.id \notin active_shortcuts

\* C5: suppressed_keys never holds a modifier key, and no key-down, key-up or
\* key-repeat event of a modifier key is marked suppressed, also when the
\* modifier belongs to a matched shortcut.
C5_ModifiersNeverSuppressed ==
    /\ suppressed_keys \cap MODIFIER_KEYS = {}
    /\ \A kind \in EventKinds, code \in EventKeys \cap MODIFIER_KEYS :
           ~ShouldSuppress(kind, code)

\* A shortcut with a modifier is matched and active; the key-down of the
\* modifier that would complete it was processed last or first.
C5_Witness ==
    \E sc \in ShortcutSet :
        /\ sc.id \in active_shortcuts
        /\ sc.target_keys \cap MODIFIER_KEYS # {}
        /\ sc.target_keys \subseteq pressed_keys
        /\ suppressed_keys # {}

PassesFilter(d) ==
    /\ SysDevices[d].ev_key
    /\ IF selected_device_path # NoPath
       THEN SysDevices[d].path = selected_device_path
       ELSE \E sc \in ShortcutSet : sc.target_keys \subseteq SysDevices[d].keys

\* No shortcut is registered, no device is present, none passes the filter
\* or the probe of every one that does fails.
NoUsableDevice ==
    \/ shortcuts = <<>>
    \/ \A d \in DeviceIds :
           osState[d] = "gone" \/ ~PassesFilter(d) \/ osState[d] = "busy"

\* C7: when discovery yields no usable device, start() returns false, starts
\* no worker thread, grabs no device, creates no virtual device and leaves
\* is_running false.
C7_StartWithoutDevice ==
    [][(/\ \E uinput_ok \in BOOLEAN, seized \in SUBSET DeviceIds :
              Start(uinput_ok, seized)
        /\ ~is_running
        /\ NoUsableDevice)
       => /\ ret' = [op |-> "start", arg |-> <<>>, ok |-> FALSE, id |-> NoId]
          /\ listener_thread' = listener_thread
          /\ listener_thread' # "alive"
          /\ osGrabbed' = {}
          /\ osVirtual' = 0
          /\ uinput' = "None"
          /\ osOpen' = {}
          /\ ~is_running']_vars

\* start() has returned false with a shortcut registered and the probe of a
\* present device failing.
C7_Witness ==
    /\ ret.op = "start"
    /\ ~ret.ok
    /\ shortcuts # <<>>
    /\ \E d \in DeviceIds : PassesFilter(d) /\ osState[d] = "busy"

\* C8: when reading a monitored device raises an I/O error, exactly that
\* device is removed from devices and device_fds and closed, the worker does
\* not exit, and it keeps reading each remaining device.
C8_ReadErrorRemovesOneDevice ==
    [][\A d \in DeviceIds :
           ReadError(d) =>
               /\ devices' = SelectSeq(devices, LAMBDA x : x # d)
               /\ Range(devices') = Range(devices) \ {d}
               /\ DOMAIN device_fds' = DOMAIN device_fds \ {Fd(d)}
               /\ \A fd \in DOMAIN device_fds' : device_fds'[fd] = device_fds[fd]
               /\ osOpen' = osOpen \ {d}
               /\ listener_thread' = "alive"
               /\ is_running'
               /\ \A e \in Range(devices) \ {d} :
                      /\ e \in Range(devices')
                      /\ Fd(e) \in DOMAIN device_fds'
                      /\ ~stop_event'
                      /\ osState'[e] = "ok" =>
                             \A code \in SysDevices[e].keys \cap LifeKeys :
                                 (ENABLED ReadEvent(e, "down", code))']_vars

\* The keyboard was unplugged and removed in this run (d, which only it has,
\* is still recorded as pressed) and the worker reads the remaining device.
C8_Witness ==
    /\ is_running
    /\ devices = <<2>>
    /\ osState[1] = "gone"
    /\ 1 \notin osOpen
    /\ KEY_D \in pressed_keys
    /\ WorkerReads(2)

(***************************************************************************)
(* Properties of the parser (specification SpecParse).                     *)
(***************************************************************************)
\* C9: add_shortcut with a string in which some '+'-separated segment does
\* not resolve, or which is empty, returns no id and leaves shortcuts and
\* all_required_keys unchanged; with a string that resolves fully it appends
\* exactly one shortcut, whose target_keys are all the resolved key codes.
C9_AddShortcutAllOrNothing ==
    [][\A c \in ParseCases :
           ret'.op = "add_shortcut" /\ ret'.arg = c.text =>
               IF c.valid
               THEN /\ ret'.ok
                    /\ ret'.id # NoId
                    /\ Len(shortcuts') = Len(shortcuts) + 1
                    /\ SubSeq(shortcuts', 1, Len(shortcuts)) = shortcuts
                    /\ shortcuts'[Len(shortcuts')].id = ret'.id
                    /\ shortcuts'[Len(shortcuts')].target_keys = Range(c.combo)
                    /\ all_required_keys' = all_required_keys \cup Range(c.combo)
               ELSE /\ ~ret'.ok
                    /\ ret'.id = NoId
                    /\ UNCHANGED <<shortcuts, all_required_keys>>]_vars

\* add_shortcut has refused a string with one unresolvable segment.
C9_Witness ==
    /\ ret.op = "add_shortcut"
    /\ ret.arg = <<"c","t","r","l","+","b","o","g","u","s","+","d">>
    /\ ~ret.ok
    /\ shortcuts = <<>>

\* What _parse_key_combination returns for each valid spelling.
VariantKeys == [v \in ValidCases |-> ParseKeyCombination(v.text)]

\* C10: all spelling variants of a valid combination (letter case, surrounding
\* whitespace, angle brackets, aliases of the same key) parse to the same
\* key-code set, which is the target_keys add_shortcut stored for any of them.
C10_SpellingVariantsAgree ==
    \A sc \in ShortcutSet, c \in ValidCases :
        c.text = sc.id.s =>
            \A v \in ValidCases :
                v.combo = c.combo =>
                    VariantKeys[v] = [ok |-> TRUE, keys |-> sc.target_keys]

\* A shortcut was registered under a capitalised alias spelling.
C10_Witness ==
    \E sc \in ShortcutSet :
        /\ sc.id.s = <<"C","o","n","t","r","o","l","+","A","l","t","+","D">>
        /\ sc.target_keys = {KEY_LEFTCTRL, KEY_LEFTALT, KEY_D}

(***************************************************************************)
(* Re-emission and suppression.                                            *)
(***************************************************************************)
\* C11: while devices are grabbed and the virtual device exists, every key
\* event not marked suppressed is written to the virtual device with its
\* type, code and value, followed by a synchronization event, and a
\* suppressed event is written nowhere; while grabbing is disabled or not
\* started, nothing is written and no physical device is grabbed.
C11_Reemission ==
    /\ \A d \in DeviceIds, kind \in EventKinds, code \in LifeKeys :
           WorkerReads(d) /\ osState[d] = "ok" /\ code \in SysDevices[d].keys =>
               IF devices_grabbed /\ uinput = "open"
               THEN UinputWrites(kind, code) =
                        IF ShouldSuppress(kind, code) THEN <<>>
                        ELSE <<[type |-> "EV_KEY", code |-> code,
                                value |-> KeyValue(kind)],
                               [type |-> "EV_SYN", code |-> 0, value |-> 0]>>
               ELSE /\ UinputWrites(kind, code) = <<>>
                    /\ UinputWritesOther("EV_REL", 0, 1) = <<>>
    /\ ~grab_keys \/ ~is_running \/ ~(devices_grabbed /\ uinput = "open") =>
           osGrabbed = {} /\ osVirtual = 0

\* Grabbing is on, one key is held suppressed and the worker reads a device
\* that can send both a suppressed and an unsuppressed event.
C11_Witness ==
    /\ is_running
    /\ devices_grabbed /\ uinput = "open"
    /\ osGrabbed # {}
    /\ suppressed_keys = {KEY_F12}
    /\ \E d \in DeviceIds : WorkerReads(d) /\ osState[d] = "ok"

\* The keys of the registered shortcuts.
ShortcutKeys == UNION {sc.target_keys : sc \in ShortcutSet}

\* C12: a key event (down, up or repeat) of a key in no shortcut's
\* target_keys is never suppressed, whatever keys are held and whichever
\* shortcuts are matched or active.
C12_ForeignKeysPassThrough ==
    /\ suppressed_keys \subseteq ShortcutKeys
    /\ \A kind \in EventKinds, code \in EventKeys \ ShortcutKeys :
           EventPossible(code) => ~ShouldSuppress(kind, code)

\* A shortcut is active with its key suppressed while a key outside every
\* shortcut is held and others can follow.
C12_Witness ==
    /\ listener_thread = "alive"
    /\ \E sc \in ShortcutSet :
           sc.id \in active_shortcuts /\ sc.target_keys \subseteq pressed_keys
    /\ suppressed_keys # {}
    /\ pressed_keys \ (ShortcutKeys \cup MODIFIER_KEYS) # {}

(***************************************************************************)
(* Active flags and runtime state.                                         *)
(***************************************************************************)
\* C13: after every processed event a shortcut id is in active_shortcuts
\* only if its target_keys were found fully pressed with no extra modifier
\* and no event since has left them not fully pressed or ambiguous: an active
\* shortcut is fully and validly pressed.
C13_ActiveOnlyWhileMatched ==
    listener_thread = "alive" =>
        \A sc \in ShortcutSet :
            sc.id \in active_shortcuts => IsMatch(sc, pressed_keys)

\* C14: after stop() returns, pressed_keys, suppressed_keys,
\* active_shortcuts, last_trigger_times and last_release_times are empty.
C14_StopClearsRuntimeState ==
    ret.op = "stop" =>
        /\ pressed_keys = {}
        /\ suppressed_keys = {}
        /\ active_shortcuts = {}
        /\ DOMAIN last_trigger_times = {}
        /\ DOMAIN last_release_times = {}

\* C14, the part the code keeps: stop() empties pressed_keys and
\* suppressed_keys.
C14_StopClearsKeys ==
    ret.op = "stop" => pressed_keys = {} /\ suppressed_keys = {}

\* C17: across start() and stop() calls at most one virtual output device
\* is open at any time; a start() on a running engine creates none, and a
\* successful grabbing start creates exactly one, however many physical
\* devices it grabs.
C17_OneVirtualDevice ==
    [][/\ osVirtual' <= 1
       /\ (\E uinput_ok \in BOOLEAN, seized \in SUBSET DeviceIds :
               Start(uinput_ok, seized)) =>
              /\ is_running => osVirtual' = osVirtual
              /\ ~is_running' => osVirtual' = 0
              /\ ~is_running /\ is_running' /\ devices_grabbed' =>
                     osVirtual = 0 /\ osVirtual' = 1 /\ uinput' = "open"]_vars

\* A grabbing start has grabbed two physical devices.
C17_Witness ==
    /\ is_running
    /\ ret.op = "start"
    /\ Cardinality(osGrabbed) = 2
    /\ osVirtual = 1

\* C18: after a key-up that leaves a previously active shortcut's target_keys
\* no longer fully pressed, the shortcut is not in active_shortcuts.
C18_ReleaseClearsActive ==
    [][\A d \in DeviceIds, code \in EventKeys, sc \in ShortcutSet :
           /\ ReadEvent(d, "up", code)
           /\ sc.id \in active_shortcuts
           /\ sc.target_keys \subseteq pressed_keys
           /\ ~(sc.target_keys \subseteq pressed_keys')
           => sc.id \notin active_shortcuts']_vars

\* C18, the part the code keeps: on such a key-up the release callback is
\* invoked when more than the debounce interval has passed since the last
\* release.
C18_ReleaseCallbackInvoked ==
    \A code \in EventKeys, sc \in ShortcutSet :
        /\ EventPossible(code)
        /\ sc.id \in active_shortcuts
        /\ sc.release_callback
        /\ sc.target_keys \subseteq pressed_keys
        /\ code \in sc.target_keys
        /\ now - GetTime(last_release_times, sc.id) > debounce_time
        => sc.id \in ReleaseCallbacks(code)

\* C20: a shortcut's press callback is invoked only while processing a
\* key-down of one of its target_keys.
C20_ActivatedByOwnKeyOnly ==
    \A sc \in ShortcutSet, code \in EventKeys :
        EventPossible(code) /\ sc.id \in PressCallbacks(code) =>
            code \in sc.target_keys


\* C19: for every shortcut with a release callback, press and release
\* callbacks strictly alternate, starting with a press: a press callback is
\* never started while the last callback started was a press, and a release
\* callback is started only when the last callback started was a press.
C19_CallbacksAlternate ==
    \A sc \in ShortcutSet, code \in EventKeys :
        EventPossible(code) /\ sc.callback /\ sc.release_callback =>
            /\ sc.id \in PressCallbacks(code) => LastCallback(sc.id) # "press"
            /\ sc.id \in ReleaseCallbacks(code) => LastCallback(sc.id) = "press"

\* C19, the part the code keeps: the first callback started for a shortcut
\* is its press callback.
C19_StartsWithPress ==
    \A sc \in ShortcutSet, code \in EventKeys :
        /\ EventPossible(code)
        /\ sc.callback
        /\ sc.release_callback
        /\ LastCallback(sc.id) = "none"
        => sc.id \notin ReleaseCallbacks(code)

\* The worker starts a callback thread while processing this event.
Dispatches(kind, code) ==
    \/ kind = "down" /\ PressCallbacks(code) # {}
    \/ kind = "up" /\ ReleaseCallbacks(code) # {}

\* The worker, draining ready_fds, can read the key event (kind, code) from
\* the next ready device.
NextReadable(code) ==
    /\ listener_thread = "alive"
    /\ loop_pc = "drain"
    /\ ready_fds # <<>>
    /\ Fd(Head(ready_fds)) \in DOMAIN device_fds
    /\ osState[Head(ready_fds)] = "ok"
    /\ code \in SysDevices[Head(ready_fds)].keys

\* C16: callbacks are taken never to return.  After the worker has started a
\* press or release callback on its own thread, the worker is still alive and
\* goes on draining: every key event the next ready device can deliver is
\* processed, so the callback does not stop the suppression decision, the
\* re-emission or further dispatches for later events.
C16_CallbackDoesNotBlockWorker ==
    [][\A kind \in LoopKinds, code \in LoopKeys :
           LoopDrain(TRUE, kind, code) /\ Dispatches(kind, code) =>
               /\ listener_thread' = "alive"
               /\ (ENABLED LoopDrain(FALSE, kind, code))'
               /\ \A kind2 \in LoopKinds, code2 \in LoopKeys :
                      NextReadable(code2)' =>
                          (ENABLED LoopDrain(TRUE, kind2, code2))']_vars

\* C16: a release callback was dispatched, hence an event was processed after
\* the press callback was dispatched, and the worker can process more.
C16_Witness ==
    /\ \E sc \in ShortcutSet : LastCallback(sc.id) = "release"
    /\ \E code \in LoopKeys : NextReadable(code)

\* C15: once stop() has set the stop signal, every event-loop worker alive
\* eventually exits, whether it is waiting on devices, has no device, or is
\* draining events.
C15_WorkerExitsAfterStop == stop_event ~> (AliveWorkers = 0)

\* C15, the part the code keeps: while the stop signal stays set, every
\* worker alive eventually exits.
C15_WorkerExitsWhileSignalled == stop_event ~> (AliveWorkers = 0 \/ ~stop_event)

(***************************************************************************)
(* Suppression, devices and discovery, continued.                          *)
(***************************************************************************)
\* Shortcut sc is valid once code is added to pressed_keys: its target_keys
\* are all pressed and no other pressed key is a modifier.
ValidWith(sc, code) ==
    /\ sc.target_keys \subseteq pressed_keys \cup {code}
    /\ ((pressed_keys \cup {code}) \ sc.target_keys) \cap MODIFIER_KEYS = {}

\* C21, as stated: a key-down is suppressed exactly when the key is not a
\* modifier and, with it pressed, some shortcut is valid.
C21_SuppressedWheneverValid ==
    \A code \in StreamKeys :
        EventPossible(code) =>
            (ShouldSuppress("down", code) <=>
                code \notin MODIFIER_KEYS
                    /\ \E sc \in ShortcutSet : ValidWith(sc, code))

\* C21, amended: a key-down is suppressed, and its key added to
\* suppressed_keys, exactly when the key is not a modifier and, with it
\* pressed, some shortcut that contains the key is valid; whether that
\* shortcut is active already or its activation is debounced plays no part.
C21_SuppressedWhenCompleting ==
    [][\A d \in DeviceIds, code \in StreamKeys :
           KeyEvent(d, "down", code) =>
               LET completes == /\ code \notin MODIFIER_KEYS
                                /\ \E sc \in ShortcutSet :
                                       code \in sc.target_keys /\ ValidWith(sc, code)
               IN  /\ ShouldSuppress("down", code) <=> completes
                   /\ suppressed_keys' =
                          IF completes THEN suppressed_keys \cup {code}
                          ELSE suppressed_keys]_vars

\* C21: a key-down that completed a shortcut already active, hence activated
\* nothing, was suppressed.
C21_Witness ==
    \E sc \in ShortcutSet, code \in StreamKeys :
        /\ EventPossible(code)
        /\ code \in suppressed_keys
        /\ code \in sc.target_keys
        /\ sc.target_keys \subseteq pressed_keys
        /\ sc.id \in active_shortcuts
        /\ GetTime(last_trigger_times, sc.id) < GetTime(last_release_times, sc.id)

\* C22: in a key stream in which each key's down and up events alternate, a
\* key-up whose key-down was processed since the last stop() is suppressed
\* if and only if that key-down was suppressed; with the virtual device
\* open, the key-up is written to it if and only if the key-down was.
C22_KeyUpFollowsKeyDown ==
    \A code \in StreamKeys :
        EventPossible(code) /\ held_down[code] # "up" /\ code \in pressed_keys =>
            /\ ShouldSuppress("up", code) <=> held_down[code] = "suppressed"
            /\ uinput # "None" /\ devices_grabbed =>
                   (UinputWrites("up", code) # <<>> <=> held_down[code] = "passed")

\* C22: the key-down of d completed a shortcut with ctrl and was suppressed,
\* ctrl has been released since, and the key-up of d can be processed.
C22_Witness ==
    /\ EventPossible(KEY_D)
    /\ held_down[KEY_D] = "suppressed"
    /\ held_down[KEY_LEFTCTRL] = "up"
    /\ pressed_keys = {KEY_D}
    /\ uinput # "None"

\* C23: a key event is written to the virtual device only if the device it
\* was read from is exclusively grabbed by this process.
C23_ReemittedOnlyFromGrabbed ==
    \A d \in DeviceIds, kind \in EventKinds, code \in LifeKeys :
        /\ WorkerReads(d)
        /\ osState[d] = "ok"
        /\ code \in SysDevices[d].keys
        /\ UinputWrites(kind, code) # <<>>
        => d \in osGrabbed

\* C24: every key in pressed_keys (and in suppressed_keys) is a key of some
\* device that is still monitored: the keys held on a removed device do not
\* stay behind.
C24_PressedKeysOfMonitoredDevices ==
    \A code \in pressed_keys \cup suppressed_keys :
        \E d \in Range(devices) : code \in SysDevices[d].keys

\* C25: a key-repeat event is suppressed, and kept from the virtual device,
\* if and only if its key is in suppressed_keys at that moment; processing it
\* leaves pressed_keys, suppressed_keys, active_shortcuts and the timestamp
\* maps as they were and starts no callback.
C25_RepeatChangesNothing ==
    [][\A code \in LoopKeys :
           LoopDrain(TRUE, "repeat", code) =>
               /\ ShouldSuppress("repeat", code) <=> code \in suppressed_keys
               /\ uinput # "None" /\ devices_grabbed =>
                      (UinputWrites("repeat", code) = <<>> <=> code \in suppressed_keys)
               /\ ~Dispatches("repeat", code)
               /\ UNCHANGED <<pressed_keys, suppressed_keys, active_shortcuts,
                              last_trigger_times, last_release_times,
                              last_callback>>]_vars

\* C25: the worker is about to read a key-repeat of a suppressed key, with the
\* virtual device open.
C25_Witness ==
    \E code \in LoopKeys :
        /\ NextReadable(code)
        /\ code \in suppressed_keys
        /\ uinput # "None"
        /\ devices_grabbed

\* C26: whether a key-down activates a shortcut, and starts its press
\* callback, depends only on the shortcut's own validity, its own entry in
\* active_shortcuts and its own last activation time; other shortcuts, among
\* them another registration of the same combination, do not block it.
C26_DebouncePerShortcut ==
    \A sc \in ShortcutSet, code \in StreamKeys :
        EventPossible(code) =>
            (sc.id \in PressCallbacks(code) <=>
                /\ sc.callback
                /\ ValidWith(sc, code)
                /\ sc.id \notin active_shortcuts
                /\ now - GetTime(last_trigger_times, sc.id) > debounce_time)

\* Two registrations of one combination are both activated by a key-down
\* of code.
BothRegistrationsFire(code) ==
    \E sc1, sc2 \in ShortcutSet :
        /\ sc1.id # sc2.id
        /\ sc1.target_keys = sc2.target_keys
        /\ {sc1.id, sc2.id} \subseteq PressCallbacks(code)

\* A shortcut is activated by a key-down of code less than 100 ms after
\* another shortcut was.
FiresSoonAfterAnother(code) ==
    \E sc1, sc2 \in ShortcutSet :
        /\ sc1.id # sc2.id
        /\ sc1.id \in DOMAIN last_trigger_times
        /\ now - last_trigger_times[sc1.id] > 0
        /\ now - last_trigger_times[sc1.id] <= debounce_time
        /\ sc2.id \in PressCallbacks(code)

\* C26: a key-down can be processed that activates a shortcut within 100 ms
\* of the activation of another one.
C26_Witness ==
    \E code \in StreamKeys : EventPossible(code) /\ FiresSoonAfterAnother(code)

\* Two registrations of one combination are activated by the same key-down.
C26_SameKeyDown ==
    \E code \in StreamKeys : EventPossible(code) /\ BothRegistrationsFire(code)

\* C27: across any interleaving of start() and stop(), at most one
\* event-loop worker is alive.
C27_AtMostOneWorker == AliveWorkers <= 1

\* C27, the part the code keeps: a second worker is alive only after a
\* stop() whose join timed out; while start() and stop() are never called
\* with a worker of an earlier start() alive, no worker is replaced.
C27_OneWorkerPerStart ==
    [][listener_thread # "alive" => orphans' <= orphans]_vars

\* A step that writes pressed_keys, suppressed_keys, active_shortcuts or a
\* timestamp map.
EngineWritten ==
    <<pressed_keys, suppressed_keys, active_shortcuts, last_trigger_times,
      last_release_times>>' #
    <<pressed_keys, suppressed_keys, active_shortcuts, last_trigger_times,
      last_release_times>>

\* A step in which an event-loop worker processes a key event.
WorkerProcesses ==
    \/ \E kind \in LoopKinds, code \in LoopKeys : LoopDrain(TRUE, kind, code)
    \/ \E d \in DeviceIds, kind \in LoopKinds, code \in LoopKeys :
           OrphanReads(d, kind, code)

\* C28: while an event-loop worker is alive, pressed_keys, suppressed_keys,
\* active_shortcuts and the timestamp maps are written by a worker only.
C28_OnlyWorkerWrites ==
    [][AliveWorkers > 0 /\ EngineWritten => WorkerProcesses]_vars

\* C28, the part the code keeps: the only writer besides the workers is
\* stop(), after its join.
C28_WorkerOrStopWrites ==
    [][EngineWritten => WorkerProcesses \/ StopFinish]_vars

\* start() is called while the engine is not running, so that discovery is
\* made.
StartDiscovers ==
    /\ ~is_running
    /\ \E uinput_ok \in BOOLEAN, seized \in SUBSET DeviceIds :
           Start(uinput_ok, seized)

\* C29: in automatic discovery a device is kept if and only if it is present,
\* reports key-event capability, can emit all target_keys of at least one
\* registered shortcut, and passes the grab/ungrab probe; whether another
\* device fails the probe plays no part.
C29_AutomaticDiscovery ==
    [][StartDiscovers /\ selected_device_path = NoPath =>
           \A d \in DeviceIds :
               d \in Range(devices') <=>
                   /\ osState[d] # "gone"
                   /\ SysDevices[d].ev_key
                   /\ \E sc \in ShortcutSet :
                          sc.target_keys \subseteq SysDevices[d].keys
                   /\ osState[d] = "ok"]_vars

\* C29: automatic discovery kept the second keyboard while the probe of the
\* first one, which can emit the shortcut as well, failed.
C29_Witness ==
    /\ selected_device_path = NoPath
    /\ is_running
    /\ devices = <<2>>
    /\ osState[1] = "busy"
    /\ \E sc \in ShortcutSet : sc.target_keys \subseteq SysDevices[1].keys

\* C30, as stated: with an explicit device path and a shortcut registered,
\* discovery selects no device at another path, and the device at that path
\* exactly when it is present and passes the probe, whatever its
\* capabilities; when it selects none, start() returns false.
C30_ExplicitPathUnfiltered ==
    [][StartDiscovers /\ selected_device_path # NoPath /\ shortcuts # <<>> =>
           /\ \A d \in DeviceIds :
                  d \in Range(devices') <=>
                      /\ SysDevices[d].path = selected_device_path
                      /\ osState[d] = "ok"
           /\ devices' = <<>> => ~ret'.ok /\ ~is_running']_vars

\* C30, amended: with an explicit device path and a shortcut registered,
\* discovery selects no device at another path, and the device at that path
\* exactly when it is present, reports key-event capability and passes the
\* probe, whether or not it can emit the keys of any shortcut; when it
\* selects none, start() returns false.
C30_ExplicitPathKeyDevice ==
    [][StartDiscovers /\ selected_device_path # NoPath /\ shortcuts # <<>> =>
           /\ \A d \in DeviceIds :
                  d \in Range(devices') <=>
                      /\ SysDevices[d].path = selected_device_path
                      /\ SysDevices[d].ev_key
                      /\ osState[d] = "ok"
           /\ devices' = <<>> => ~ret'.ok /\ ~is_running']_vars

\* C30: the explicitly selected macro pad is monitored although it can emit
\* the keys of no registered shortcut.
C30_Witness ==
    /\ selected_device_path = SysDevices[2].path
    /\ is_running
    /\ devices = <<2>>
    /\ \A sc \in ShortcutSet : ~(sc.target_keys \subseteq SysDevices[2].keys)

(***************************************************************************)
(* The parser of the diagnostics device listing (specification SpecParse). *)
(***************************************************************************)
\* _string_to_keycode_standalone
StringToKeycodeStandalone(key_string) ==
    LET ks == Strip(Lower(key_string))
        key_name == IF ks \in DOMAIN KEY_ALIASES THEN KEY_ALIASES[ks]
                    ELSE LET up == Upper(ks)
                         IN  IF StartsWith(up, <<"K","E","Y","_">>) THEN up ELSE <<"K","E","Y","_">> \o up
    IN  IF key_name \in DOMAIN Ecodes THEN Ecodes[key_name] ELSE None

\* The loop of _parse_key_combination_standalone over the parts: a part that
\* does not resolve adds nothing and the loop goes on.
RECURSIVE ParsePartsStandalone(_, _)
ParsePartsStandalone(parts, keys) ==
    IF parts = <<>> THEN keys
    ELSE LET keycode == StringToKeycodeStandalone(Strip(Head(parts)))
         IN  ParsePartsStandalone(Tail(parts),
                                  IF keycode # None THEN keys \cup {keycode} ELSE keys)

\* _parse_key_combination_standalone: it always returns a key set, {KEY_F12}
\* when no part resolved.
ParseKeyCombinationStandalone(key_string) ==
    LET key_lower == RemoveChar(RemoveChar(Strip(Lower(key_string)), "<"), ">")
        parts == Split(key_lower, "+")
        keys == ParsePartsStandalone(parts, {})
    IN  [ok |-> TRUE, keys |-> IF keys = {} THEN {KEY_F12} ELSE keys]

\* C33: the parser of the diagnostics device listing and the parser of
\* add_shortcut agree on every combination string: on the string add_shortcut
\* was last called with, both yield the same key-code set or both reject it.
C33_ParsersAgree ==
    ret.op = "add_shortcut" =>
        ParseKeyCombinationStandalone(ret.arg) = ParseKeyCombination(ret.arg)

\* The two parsers yield the same key-code set on every string that
\* add_shortcut accepted.
C33_ParsersAgreeOnAccepted ==
    ret.op = "add_shortcut" /\ ret.ok =>
        ParseKeyCombinationStandalone(ret.arg) = ParseKeyCombination(ret.arg)

\* On a string add_shortcut refused, the standalone parser yields the keys of
\* the segments that resolve, or {KEY_F12} when there are none.
C33_StandaloneNeverRejects ==
    \A c \in InvalidCases :
        ret.op = "add_shortcut" /\ ret.arg = c.text =>
            /\ ~ret.ok
            /\ ParseKeyCombinationStandalone(ret.arg).ok
            /\ ParseKeyCombinationStandalone(ret.arg).keys # {}

(***************************************************************************)
(* The boundary of the debounce interval (specification Spec).             *)
(***************************************************************************)
\* A key-down of code finds shortcut sc inactive and validly pressed exactly
\* debounce_time after its last activation.
DownAtDebounce(sc, code) ==
    /\ EventPossible(code)
    /\ sc.id \notin active_shortcuts
    /\ IsMatch(sc, pressed_keys \cup {code})
    /\ sc.id \in DOMAIN last_trigger_times
    /\ now - last_trigger_times[sc.id] = 100

\* A key-up of code releases the active shortcut sc exactly debounce_time
\* after its last release.
UpAtDebounce(sc, code) ==
    /\ EventPossible(code)
    /\ sc.id \in active_shortcuts
    /\ code \in sc.target_keys
    /\ sc.target_keys \subseteq pressed_keys
    /\ sc.id \in DOMAIN last_release_times
    /\ now - last_release_times[sc.id] = 100

\* C32, activation: an inactive valid shortcut whose last activation was
\* exactly 100 ms ago activates and its press callback is invoked.
C32_ActivationAtDebounce ==
    \A sc \in ShortcutSet, code \in EventKeys :
        DownAtDebounce(sc, code) =>
            /\ sc \in Triggered(pressed_keys \cup {code})
            /\ sc.callback => sc.id \in PressCallbacks(code)

\* C32, release: a release exactly 100 ms after the last release invokes the
\* release callback.
C32_ReleaseAtDebounce ==
    \A sc \in ShortcutSet, code \in EventKeys :
        UpAtDebounce(sc, code) /\ sc.release_callback =>
            sc.id \in ReleaseCallbacks(code)

\* C32: with time in whole milliseconds, an inactive valid shortcut whose
\* last activation was exactly 100 ms ago activates, and a release exactly
\* 100 ms after the last release invokes the release callback.
C32_DebounceBoundaryInclusive ==
    /\ C32_ActivationAtDebounce
    /\ C32_ReleaseAtDebounce

\* Exactly 100 ms after the last activation a shortcut is not activated, and
\* exactly 100 ms after the last release no release callback is invoked.
C32_DebounceBoundaryExclusive ==
    \A sc \in ShortcutSet, code \in EventKeys :
        /\ DownAtDebounce(sc, code) =>
               /\ sc \notin Triggered(pressed_keys \cup {code})
               /\ sc.id \notin PressCallbacks(code)
        /\ UpAtDebounce(sc, code) => sc.id \notin ReleaseCallbacks(code)

\* A shortcut that was activated at 1000 ms and deactivated by a foreign
\* key-down is fully pressed again at 1100 ms and is not activated.
C32_NotActivatedAtBoundary ==
    \E sc \in ShortcutSet :
        /\ listener_thread = "alive"
        /\ now = 1100
        /\ GetTime(last_trigger_times, sc.id) = 1000
        /\ sc.target_keys \subseteq pressed_keys
        /\ sc.id \notin active_shortcuts

(***************************************************************************)
(* Properties of the order of events (specification SpecOrder).            *)
(***************************************************************************)
\* The events of each device appear in log in the order the device reported
\* them.
InReportedOrder(log) ==
    \A i, j \in 1..Len(log) :
        i < j /\ log[i].d = log[j].d => log[i].n < log[j].n

\* Every event written to the virtual device was passed to the engine and
\* marked not suppressed.
WrittenAfterDecision ==
    \A i \in 1..Len(written) :
        \E j \in 1..Len(engine_log) :
            /\ engine_log[j].d = written[i].d
            /\ engine_log[j].n = written[i].n
            /\ ~engine_log[j].suppress

\* C31: the events of one device are passed to the matching engine, and the
\* unsuppressed ones written to the virtual device, in the order the device
\* reported them (the written stream of one device is an order-preserving
\* subsequence of its input), and an event is written only after it was
\* decided not to suppress it.
C31_DeviceOrderPreserved ==
    /\ InReportedOrder(engine_log)
    /\ InReportedOrder(written)
    /\ WrittenAfterDecision

\* Events processed by a worker that a later start() replaced.
ProcessedByOrphan == {i \in 1..Len(engine_log) : engine_log[i].by = "orphan"}

\* As long as no replaced worker has processed an event, the order of each
\* device is preserved.
C31_OrderPreservedByOneWorker ==
    ProcessedByOrphan = {} => C31_DeviceOrderPreserved

\* Whoever processes the events, one is written only after it was decided not
\* to suppress it, and none is written twice.
C31_WrittenOnceAfterDecision ==
    /\ WrittenAfterDecision
    /\ \A i, j \in 1..Len(written) : written[i] = written[j] => i = j

\* One worker has read two events of a device at once, processed both and
\* written the second, the first being suppressed.
C31_BatchInOrder ==
    /\ ProcessedByOrphan = {}
    /\ Len(engine_log) = 2
    /\ engine_log[1].d = engine_log[2].d
    /\ engine_log[1].suppress
    /\ written = <<[d |-> engine_log[2].d, n |-> engine_log[2].n]>>
    /\ batch.worker = <<>>
    /\ read_count[engine_log[1].d] = 2
    /\ Len(reported[engine_log[1].d]) = 2
====
